---- MODULE Spec2Model ----
(***************************************************************************)
(* A model of the SPy middle/back-end core:                                *)
(*   - the qualified-name system      (spy/fqn.py, spy/fqn_parser.py)      *)
(*   - the bytecode compiler          (spy/irgen/codegen.py,               *)
(*                                     spy/vm/codeobject.py)               *)
(*   - binary operator resolution     (spy/vm/modules/operator/binop.py)   *)
(*                                                                         *)
(* Python strings are modelled as sequences of one-character strings, so   *)
(* that printing, tokenizing and parsing are computed character by         *)
(* character exactly as the source does.                                   *)
(***************************************************************************)
EXTENDS Integers, Sequences, FiniteSets, TLC

VARIABLES
    nsparts,   \* heap of NSPart objects: Seq of [name, qualifiers, suffix]
    fqns,      \* heap of FQN objects: Seq of Seq of NSPart references
    qnret,     \* the last call on the QN API and what it returned
    funcdef,   \* the spy.ast.FuncDef handed to CodeGen
    w_code,    \* the CodeGen's W_CodeObject (and how make_w_code ended)
    ops,       \* a pool of stand-alone OpCode objects
    opret,     \* the last call on the OpCode API and how it ended
    overridden, \* the <<class, op_* method>> pairs the program's classes define
    binret,    \* the last operator resolution and what it returned
    convret,   \* the last conversion resolution and what it returned
    w_types,   \* the type descriptors of the program, by name
    ctx,       \* the Context of the C backend: _d and the three builders
    w2c_calls, \* the calls of Context.w2c made so far and how each ended
    st_fields, \* the fields of a W_StructType: their sizes, in declared order
    layout     \* the offsets and the size of that W_StructType

qnvars == <<nsparts, fqns, qnret>>
cgvars == <<funcdef, w_code>>
opvars == <<ops, opret>>
bovars == <<overridden, binret>>
cvvars == <<convret>>
lwvars == <<w_types, ctx, w2c_calls>>
lyvars == <<st_fields, layout>>

vars == <<nsparts, fqns, qnret, funcdef, w_code, ops, opret, overridden, binret,
          convret, w_types, ctx, w2c_calls, st_fields, layout>>

(***************************************************************************)
(* Bounds of the model.                                                    *)
(***************************************************************************)
MaxFQNs == 4
MaxPartsPerFQN == 1
MaxQualifiers == 1
MaxDepth == 2
MaxPrefix == 1
MaxOps == 2
MaxStack == 4
MaxTypes == 3
MaxFields == 2
MaxCalls == 2
MaxRecursion == 20
MaxLayoutFields == 3
MaxTextLen == 3
MaxMangleParts == 3

(***************************************************************************)
(* Generic string helpers.                                                 *)
(***************************************************************************)
RECURSIVE str_join(_, _)
\* sep.join(items)
str_join(sep, items) ==
    IF Len(items) = 0 THEN <<>>
    ELSE IF Len(items) = 1 THEN items[1]
    ELSE items[1] \o sep \o str_join(sep, Tail(items))

\* s.replace(old, new) for single characters
str_replace(s, old, new) == [i \in 1..Len(s) |-> IF s[i] = old THEN new ELSE s[i]]

\* An exception raised while a string is being built is modelled as a
\* poison character: the string that would have been returned contains it.
IndexError == "<IndexError>"
raised(s) == \E i \in 1..Len(s) : s[i] = IndexError

s_builtins == <<"b", "u", "i", "l", "t", "i", "n", "s">>
s_def == <<"d", "e", "f">>

(***************************************************************************)
(* QN values: an FQN is a sequence of parts, a part is a record            *)
(* [name, qualifiers, suffix] whose qualifiers are FQN values.             *)
(***************************************************************************)
RECURSIVE NSPart_str(_), fullname_of(_, _), human_name(_)

\* NSPart.__str__
NSPart_str(part) ==
    LET base0 == part.name
        quals == str_join(<<",", " ">>,
                          [j \in 1..Len(part.qualifiers) |-> human_name(part.qualifiers[j])])
        base1 == IF Len(part.qualifiers) > 0
                 THEN base0 \o <<"[">> \o quals \o <<"]">>
                 ELSE base0
    IN  IF part.suffix # <<>> THEN base1 \o <<"#">> \o part.suffix ELSE base1

\* FQN._fullname(human)
fullname_of(q, human) ==
    IF human /\ Len(q) = 0 THEN <<IndexError>>      \* parts[0] of an empty list
    ELSE LET parts == IF human /\ NSPart_str(q[1]) = s_builtins THEN Tail(q) ELSE q
         IN  str_join(<<":", ":">>, [i \in 1..Len(parts) |-> NSPart_str(parts[i])])

\* FQN.fullname
fullname(q) == fullname_of(q, FALSE)

\* FQN.modname
modname(q) == IF Len(q) = 0 THEN <<IndexError>> ELSE NSPart_str(q[1])

\* FQN.human_name
human_name(q) ==
    LET is_def == Len(q) = 2 /\ modname(q) = s_builtins /\ q[2].name = s_def
    IN  IF is_def
        THEN LET quals == [j \in 1..Len(q[2].qualifiers) |-> human_name(q[2].qualifiers[j])]
                 n == Len(quals)
             IN  IF n = 0 THEN <<IndexError>>       \* quals[-1] of an empty list
                 ELSE <<"d", "e", "f", "(">>
                      \o str_join(<<",", " ">>, SubSeq(quals, 1, n - 1))
                      \o <<")", " ", "-", ">", " ">> \o quals[n]
        ELSE fullname_of(q, TRUE)

\* FQN.__eq__
FQN_eq(a, b) == fullname(a) = fullname(b)

\* FQN.__hash__: the hash of the canonical string, modelled by the string
FQN_hash(q) == fullname(q)

RECURSIVE NSPart_c_name(_), c_name_plain(_)

\* NSPart.c_name with a single '_' between the name and the qualifiers
NSPart_c_name_single_underscore(part) ==
    LET name == str_replace(part.name, ".", "_")
        quals == str_join(<<"_">>,
                          [j \in 1..Len(part.qualifiers) |-> c_name_plain(part.qualifiers[j])])
        base == IF Len(part.qualifiers) = 0 THEN name ELSE name \o <<"_">> \o quals
    IN  IF part.suffix # <<>> THEN base \o <<"$">> \o part.suffix ELSE base

\* NSPart.c_name
NSPart_c_name(part) ==
    LET name == str_replace(part.name, ".", "_")
        quals == str_join(<<"_">>,
                          [j \in 1..Len(part.qualifiers) |-> c_name_plain(part.qualifiers[j])])
        base == IF Len(part.qualifiers) = 0 THEN name ELSE name \o <<"_", "_">> \o quals
    IN  IF part.suffix # <<>> THEN base \o <<"$">> \o part.suffix ELSE base

\* FQN.c_name_plain
c_name_plain(q) == str_join(<<"$">>, [i \in 1..Len(q) |-> NSPart_c_name(q[i])])

\* FQN.c_name
c_name(q) == <<"s", "p", "y", "_">> \o c_name_plain(q)

\* FQN.suffix
FQN_suffix(q) == IF Len(q) > 0 THEN q[Len(q)].suffix ELSE <<>>

(***************************************************************************)
(* The tokenizer and the recursive-descent parser (fqn_parser.py).         *)
(***************************************************************************)
Whitespace == {" ", "\t", "\n"}

\* the `if token: tokens.append(token); token = ''` idiom
flush(st) == IF st.token # <<>>
             THEN [st EXCEPT !.tokens = Append(@, st.token), !.token = <<>>]
             ELSE st

RECURSIVE tokenize_loop(_, _)
tokenize_loop(s, st) ==
    IF ~(st.i < Len(s)) THEN st
    ELSE
    LET char == s[st.i + 1]          \* s[i], 0-based in the source
        adv(t) == [t EXCEPT !.i = @ + 1]
    IN  IF char \in Whitespace THEN tokenize_loop(s, adv(st))
        ELSE IF char \in {"[", "]", ","} /\ st.depth = 0
        THEN tokenize_loop(s, adv([flush(st) EXCEPT !.tokens = Append(@, <<char>>)]))
        ELSE IF char = "["
        THEN tokenize_loop(s, adv([flush(st) EXCEPT !.tokens = Append(@, <<char>>),
                                                    !.depth = @ + 1]))
        ELSE IF char = "]"
        THEN tokenize_loop(s, adv([flush(st) EXCEPT !.tokens = Append(@, <<char>>),
                                                    !.depth = @ - 1]))
        ELSE IF char = ":" /\ st.i + 1 < Len(s) /\ s[st.i + 2] = ":" /\ st.depth = 0
        THEN tokenize_loop(s, adv([flush(st) EXCEPT !.tokens = Append(@, <<":", ":">>),
                                                    !.i = @ + 1]))
        ELSE IF char = "#" /\ st.depth = 0
        THEN tokenize_loop(s, adv([flush(st) EXCEPT !.tokens = Append(@, <<"#">>)]))
        ELSE tokenize_loop(s, adv([st EXCEPT !.token = Append(@, char)]))

\* tokenize
tokenize(s) ==
    flush(tokenize_loop(s, [tokens |-> <<>>, token |-> <<>>, depth |-> 0, i |-> 0])).tokens

\* str.isspace() of a token
isspace(tok) == tok # <<>> /\ \A k \in 1..Len(tok) : tok[k] \in Whitespace

\* The parser state is the index self.i; a parser method returns a record
\* [i, err, val]: err is "" on a normal return and the exception otherwise.
None == <<"<None>">>
NoErr == ""

RECURSIVE skip_space(_, _)
skip_space(tokens, i) ==
    IF i < Len(tokens) /\ isspace(tokens[i + 1]) THEN skip_space(tokens, i + 1) ELSE i

\* FQNParser.peek: returns [i, tok]
peek(tokens, i) ==
    LET j == skip_space(tokens, i)
    IN  [i |-> j, tok |-> IF j >= Len(tokens) THEN None ELSE tokens[j + 1]]

\* a normal return of a parser method, at index i
returns(i, val) == [i |-> i, err |-> NoErr, val |-> val]

\* a parser method unwinding with an exception, at index i
unwind(i, err) == [i |-> i, err |-> err, val |-> None]

\* Each parser method is cut at its calls: a local operator after_X is the
\* rest of the method once its call X has returned the record given as the
\* last argument.

\* FQNParser.expect
expect(tokens, i, token) ==
    LET after_peek(p) ==
            IF p.tok # token THEN unwind(p.i, "ValueError: Expected")
            ELSE returns(p.i + 1, None)
    IN  after_peek(peek(tokens, i))

\* FQNParser.parse_name
parse_name(tokens, i) ==
    LET after_peek(p) ==
            IF p.tok = None THEN unwind(p.i + 1, "AssertionError")
            ELSE returns(p.i + 1, p.tok)
    IN  after_peek(peek(tokens, i))

\* FQNParser.parse_suffix
parse_suffix(tokens, i) ==
    LET after_peek(p) ==
            IF p.tok = None THEN unwind(p.i + 1, "AssertionError")
            ELSE returns(p.i + 1, p.tok)
    IN  after_peek(peek(tokens, i))

RECURSIVE parse_fqn_loop(_, _, _), parse_part(_, _), parse_qualifiers_loop(_, _, _)

\* FQNParser.parse_fqn
parse_fqn(tokens, i) == parse_fqn_loop(tokens, i, <<>>)

\* while True: parts.append(self.parse_part()); if self.peek() == '::': ...
parse_fqn_loop(tokens, i, parts) ==
    LET after_expect(parts2, e) ==
            IF e.err # NoErr THEN e ELSE parse_fqn_loop(tokens, e.i, parts2)
        after_peek(parts2, p) ==
            IF p.tok = <<":", ":">>
            THEN after_expect(parts2, expect(tokens, p.i, <<":", ":">>))
            ELSE returns(p.i, parts2)
        after_parse_part(r) ==
            IF r.err # NoErr THEN r
            ELSE after_peek(Append(parts, r.val), peek(tokens, r.i))
    IN  after_parse_part(parse_part(tokens, i))

\* FQNParser.parse_qualifiers
parse_qualifiers(tokens, i) == parse_qualifiers_loop(tokens, i, <<>>)

\* while True: qualifiers.append(self.parse_fqn()); if / elif / elif on
\* self.peek(): when no branch is taken the loop goes on
parse_qualifiers_loop(tokens, i, qualifiers) ==
    LET after_expect(quals2, e) ==
            IF e.err # NoErr THEN e ELSE parse_qualifiers_loop(tokens, e.i, quals2)
        after_peek(quals2, p) ==
            IF p.tok = None THEN unwind(p.i, "ValueError: Unclosed bracket")
            ELSE IF p.tok = <<",">> THEN after_expect(quals2, expect(tokens, p.i, <<",">>))
            ELSE IF p.tok = <<"]">> THEN returns(p.i, quals2)
            ELSE parse_qualifiers_loop(tokens, p.i, quals2)
        after_parse_fqn(r) ==
            IF r.err # NoErr THEN r
            ELSE after_peek(Append(qualifiers, r.val), peek(tokens, r.i))
    IN  after_parse_fqn(parse_fqn(tokens, i))

\* FQNParser.parse_part
parse_part(tokens, i) ==
    LET \* return NSPart(name, qualifiers, suffix)
        after_suffix(name, qualifiers, sf) ==
            IF sf.err # NoErr THEN sf
            ELSE returns(sf.i, [name |-> name, qualifiers |-> qualifiers, suffix |-> sf.val])
        after_expect_hash(e) == IF e.err # NoErr THEN e ELSE parse_suffix(tokens, e.i)
        \* suffix = ''; if self.peek() == '#': ...
        after_peek_hash(p) ==
            IF p.tok = <<"#">> THEN after_expect_hash(expect(tokens, p.i, <<"#">>))
            ELSE returns(p.i, <<>>)
        after_brackets(name, qs) ==
            IF qs.err # NoErr THEN qs
            ELSE after_suffix(name, qs.val, after_peek_hash(peek(tokens, qs.i)))
        after_expect_close(qualifiers, e) ==
            IF e.err # NoErr THEN e ELSE returns(e.i, qualifiers)
        after_parse_qualifiers(q) ==
            IF q.err # NoErr THEN q
            ELSE after_expect_close(q.val, expect(tokens, q.i, <<"]">>))
        after_expect_open(e) ==
            IF e.err # NoErr THEN e
            ELSE after_parse_qualifiers(parse_qualifiers(tokens, e.i))
        \* qualifiers = []; if self.peek() == '[': ...
        after_peek_open(p) ==
            IF p.tok = <<"[">> THEN after_expect_open(expect(tokens, p.i, <<"[">>))
            ELSE returns(p.i, <<>>)
        after_parse_name(n) ==
            IF n.err # NoErr THEN n
            ELSE after_brackets(n.val, after_peek_open(peek(tokens, n.i)))
    IN  after_parse_name(parse_name(tokens, i))

\* FQNParser(s).parse(): [err, val]
parse(s) ==
    LET after_parse_fqn(tokens, r) ==
            IF r.err # NoErr THEN [err |-> r.err, val |-> None]
            ELSE IF r.i < Len(tokens)
            THEN [err |-> "ValueError: Unexpected token", val |-> None]
            ELSE [err |-> NoErr, val |-> r.val]
        after_tokenize(tokens) == after_parse_fqn(tokens, parse_fqn(tokens, 0))
    IN  after_tokenize(tokenize(s))

(***************************************************************************)
(* The object heap.  NSPart objects are mutable and are shared by          *)
(* reference between FQN objects; an FQN object is its list of parts.      *)
(***************************************************************************)
Names == {<<"x">>, s_builtins, s_def}
Suffixes == {<<"0">>}

PartRefs == 1..Len(nsparts)
FQNRefs == 1..Len(fqns)

RECURSIVE SeqsUpTo(_, _)
\* the sequences over S of length at most n
SeqsUpTo(S, n) ==
    IF n = 0 THEN {<<>>}
    ELSE LET shorter == SeqsUpTo(S, n - 1)
         IN  shorter \cup {Append(t, e) : t \in {u \in shorter : Len(u) = n - 1}, e \in S}

RECURSIVE FQN_val(_, _, _), NSPart_val(_, _, _)
\* the QN value of the FQN object q, read through the heap (P, F)
FQN_val(P, F, q) == [i \in 1..Len(F[q]) |-> NSPart_val(P, F, F[q][i])]

NSPart_val(P, F, p) ==
    [name |-> P[p].name,
     qualifiers |-> [j \in 1..Len(P[p].qualifiers) |-> FQN_val(P, F, P[p].qualifiers[j])],
     suffix |-> P[p].suffix]

\* what an observer sees of the FQN object q
QN(q) == FQN_val(nsparts, fqns, q)

\* get_qualifiers, for qualifiers given as FQN objects: they are kept as they are
get_qualifiers(x) == x

\* NSPart.__init__
NSPart_init(name, quals, suffix) ==
    [name |-> name, qualifiers |-> get_qualifiers(quals), suffix |-> suffix]

RECURSIVE get_parts(_, _)
\* get_parts: a str item becomes a new NSPart(part, []), an NSPart item is
\* kept by reference.  Returns the heap of parts and the list of references.
get_parts(P, x) ==
    IF Len(x) = 0 THEN [P |-> P, parts |-> <<>>]
    ELSE LET item == x[1]
             P1 == IF item.kind = "str" THEN Append(P, NSPart_init(item.s, <<>>, <<>>)) ELSE P
             ref == IF item.kind = "str" THEN Len(P1) ELSE item.ref
             rest == get_parts(P1, Tail(x))
         IN  [P |-> rest.P, parts |-> <<ref>> \o rest.parts]

AsRefs(parts) == [i \in 1..Len(parts) |-> [kind |-> "ref", ref |-> parts[i]]]

\* FQN.__new__(x: PARTS): returns the two heaps and the new object
FQN_new(P, F, x) ==
    LET g == get_parts(P, x)
    IN  [P |-> g.P, F |-> Append(F, g.parts), res |-> Len(F) + 1]

\* FQN.with_suffix: the copy is made by FQN(self.parts), then the suffix of
\* its last part is assigned
FQN_with_suffix(P, F, self, suffix) ==
    LET n == FQN_new(P, F, AsRefs(F[self]))
        last == n.F[n.res][Len(n.F[n.res])]
    IN  [P |-> [n.P EXCEPT ![last].suffix = suffix], F |-> n.F, res |-> n.res]

\* FQN.join
FQN_join(P, F, self, name, qualifiers) ==
    LET qual2 == get_qualifiers(qualifiers)
        P1 == Append(P, NSPart_init(name, qual2, <<>>))
    IN  FQN_new(P1, F, AsRefs(F[self]) \o <<[kind |-> "ref", ref |-> Len(P1)]>>)

NoCall == [op |-> "none"]

\* FQN(x) for a list of names
NewFQN ==
    /\ Len(fqns) < MaxFQNs
    /\ \E x \in SeqsUpTo({[kind |-> "str", s |-> n] : n \in Names}, MaxPartsPerFQN) :
          LET r == FQN_new(nsparts, fqns, x)
          IN  /\ nsparts' = r.P
              /\ fqns' = r.F
              /\ qnret' = NoCall
    /\ UNCHANGED <<cgvars, opvars, bovars, cvvars, lwvars, lyvars>>

\* q.with_suffix(s)
WithSuffix ==
    /\ Len(fqns) < MaxFQNs
    /\ \E q \in FQNRefs, s \in Suffixes :
          /\ Len(fqns[q]) > 0             \* parts[-1] of an empty FQN raises
          /\ LET r == FQN_with_suffix(nsparts, fqns, q, s)
             IN  /\ nsparts' = r.P
                 /\ fqns' = r.F
                 /\ qnret' = [op |-> "with_suffix", self |-> q, arg |-> s, res |-> r.res]
    /\ UNCHANGED <<cgvars, opvars, bovars, cvvars, lwvars, lyvars>>

\* q.join(name, qualifiers)
Join ==
    /\ Len(fqns) < MaxFQNs
    /\ \E q \in FQNRefs, name \in Names, quals \in SeqsUpTo(FQNRefs, MaxQualifiers) :
          LET r == FQN_join(nsparts, fqns, q, name, quals)
          IN  /\ nsparts' = r.P
              /\ fqns' = r.F
              /\ qnret' = NoCall
    /\ UNCHANGED <<cgvars, opvars, bovars, cvvars, lwvars, lyvars>>

\* FQN(str(q)): print q and parse the text back.  The parsed FQN is a fresh
\* object that nothing else references: it is kept in qnret as its value.
ParseStr ==
    /\ \E q \in FQNRefs :
          LET s == fullname(QN(q))
          IN  qnret' = [op |-> "parse", self |-> q, arg |-> s,
                        res |-> IF raised(s) THEN [err |-> IndexError, val |-> None]
                                ELSE parse(s)]
    /\ UNCHANGED <<nsparts, fqns, cgvars, opvars, bovars, cvvars, lwvars, lyvars>>

\* the characters of the texts handed to the parser
TextChars == {"x", ":", "#", "[", "]"}

\* the texts handed to the parser besides printed FQNs
Texts == SeqsUpTo(TextChars, MaxTextLen)

\* FQN(s) for a text s: FQNParser(s).parse()
ParseText ==
    /\ \E s \in Texts : qnret' = [op |-> "parse_text", arg |-> s, res |-> parse(s)]
    /\ UNCHANGED <<nsparts, fqns, cgvars, opvars, bovars, cvvars, lwvars, lyvars>>

QNNext == NewFQN \/ WithSuffix \/ Join \/ ParseStr

ParseNext == ParseText

s_mod == <<"m", "o", "d">>
s_dict == <<"d", "i", "c", "t">>
s_foo == <<"f", "o", "o">>
s_i32 == <<"i", "3", "2">>
s_f64 == <<"f", "6", "4">>
s_a_b == <<"a", ".", "b">>

\* the parts of the QNs that are mangled: mod, a.b, foo#0, dict[i32, f64],
\* dict[dict[i32]] and dict[a.b::i32]#0
MangleParts ==
    {NSPart_init(s_mod, <<>>, <<>>), NSPart_init(s_a_b, <<>>, <<>>),
     NSPart_init(s_foo, <<>>, <<"0">>),
     NSPart_init(s_dict, <<<<NSPart_init(s_i32, <<>>, <<>>)>>,
                           <<NSPart_init(s_f64, <<>>, <<>>)>>>>, <<>>),
     NSPart_init(s_dict, <<<<NSPart_init(s_dict, <<<<NSPart_init(s_i32, <<>>, <<>>)>>>>,
                                         <<>>)>>>>, <<>>),
     NSPart_init(s_dict, <<<<NSPart_init(s_a_b, <<>>, <<>>),
                             NSPart_init(s_i32, <<>>, <<>>)>>>>, <<"0">>)}

\* q.c_name for a QN q
CName ==
    /\ qnret = NoCall
    /\ \E q \in SeqsUpTo(MangleParts, MaxMangleParts) \ {<<>>} :
          qnret' = [op |-> "c_name", arg |-> q, res |-> c_name(q)]
    /\ UNCHANGED <<nsparts, fqns, cgvars, opvars, bovars, cvvars, lwvars, lyvars>>

MangleNext == CName

(***************************************************************************)
(* OpCode (vm/codeobject.py).  An argument of an opcode is a record        *)
(* [k, i, s]: an integer, a name, a constant, or the Ellipsis object.      *)
(***************************************************************************)
Ellipsis == [k |-> "ellipsis", i |-> 0, s |-> ""]
IntArg(n) == [k |-> "int", i |-> n, s |-> ""]
StrArg(t) == [k |-> "str", i |-> 0, s |-> t]
ConstArg(n) == [k |-> "const", i |-> n, s |-> ""]
w_None == [k |-> "const", i |-> 0, s |-> "None"]

\* the tuple (...,): an OpCode that is not fully constructed
Placeholder == <<Ellipsis>>

ALL_OPCODES ==
    {"return", "abort", "mark_if_then", "mark_if_then_else", "mark_while",
     "load_const", "load_local", "load_global", "store_local", "store_global",
     "call_global", "i32_add", "i32_sub", "i32_mul", "i32_eq", "i32_neq",
     "i32_lt", "i32_lte", "i32_gt", "i32_gte", "pop_and_discard", "br",
     "br_if_not"}

\* OpCode.__init__: [err, op]
OpCode_init(name, args) ==
    IF name \notin ALL_OPCODES
    THEN [err |-> "ValueError: Invalid opcode", op |-> [name |-> name, args |-> <<>>]]
    ELSE [err |-> NoErr, op |-> [name |-> name, args |-> args]]

\* OpCode.is_br
is_br(op) == op.name \in {"br", "br_if_not"}

\* set_args without the check of the placeholder
set_args_unchecked(op, args) == [err |-> NoErr, op |-> [op EXCEPT !.args = args]]

\* OpCode.set_args: [err, op]
OpCode_set_args(op, args) ==
    IF op.args # Placeholder
    THEN [err |-> "ValueError: Cannot set args on a fully constructed op", op |-> op]
    ELSE [err |-> NoErr, op |-> [op EXCEPT !.args = args]]

(***************************************************************************)
(* The collaborators of CodeGen: the symbol table and the type oracle.     *)
(***************************************************************************)
NoSym == [scope |-> "none", qualifier |-> "", w_type |-> ""]

\* SymTable.lookup in the scope of the function being compiled
lookup(name) ==
    CASE name \in {"a", "b", "x"} -> [scope |-> "local", qualifier |-> "var", w_type |-> "i32"]
      [] name = "s" -> [scope |-> "local", qualifier |-> "var", w_type |-> "str"]
      [] name = "g" -> [scope |-> "global", qualifier |-> "var", w_type |-> "i32"]
      [] name = "f" -> [scope |-> "global", qualifier |-> "const", w_type |-> "def"]
      [] name = "n" -> [scope |-> "nonlocal", qualifier |-> "var", w_type |-> "i32"]
      [] OTHER -> NoSym

RECURSIVE get_expr_type(_)
\* TypeChecker.get_expr_type
get_expr_type(expr) ==
    CASE expr.node = "Constant" -> expr.w_type
      [] expr.node = "Name" -> lookup(expr.id).w_type
      [] expr.node = "BinOp" -> get_expr_type(expr.left)
      [] expr.node = "CompareOp" -> "bool"
      [] expr.node = "Call" -> "i32"

(***************************************************************************)
(* CodeGen (irgen/codegen.py).  The CodeGen is the record cg:              *)
(*   body     w_code.body                                                  *)
(*   err      the exception that ended the compilation, "" if none         *)
(*   ctor     the arguments each opcode of body was constructed with        *)
(*   patches  the labels of the opcodes set_args was applied to, in order  *)
(*   spans    one entry per exec_stmt/eval_expr call that returned: the    *)
(*            node and the labels before and after the call                *)
(* Every method takes the CodeGen and returns it; an exception unwinds     *)
(* through every caller.                                                   *)
(***************************************************************************)
\* CodeGen.get_label
get_label(cg) == Len(cg.body)

\* CodeGen.emit; the label it returns is get_label(cg) of its argument
emit(cg, name, args) ==
    IF cg.err # NoErr THEN cg
    ELSE LET r == OpCode_init(name, args)
         IN  IF r.err # NoErr THEN [cg EXCEPT !.err = r.err]
             ELSE [cg EXCEPT !.body = Append(@, r.op), !.ctor = Append(@, args)]

\* op.set_args(*args) on the opcode emitted at `label`
set_args(cg, label, args) ==
    IF cg.err # NoErr THEN cg
    ELSE LET r == OpCode_set_args(cg.body[label + 1], args)
         IN  IF r.err # NoErr THEN [cg EXCEPT !.err = r.err]
             ELSE [cg EXCEPT !.body[label + 1] = r.op, !.patches = Append(@, label)]

raise(cg, exc) == IF cg.err # NoErr THEN cg ELSE [cg EXCEPT !.err = exc]

\* CodeGen.is_const: "True", "False" or the exception
is_const(expr) ==
    IF expr.node = "Constant" THEN "True"
    ELSE IF expr.node = "Name"
    THEN LET sym == lookup(expr.id)
         IN  IF sym = NoSym THEN "AssertionError"
             ELSE IF sym.qualifier = "const" THEN "True" ELSE "False"
    ELSE "False"

RECURSIVE exec_stmt(_, _), eval_expr(_, _), exec_stmts(_, _), eval_exprs(_, _)

\* for stmt in stmts: self.exec_stmt(stmt)
exec_stmts(cg, stmts) ==
    IF Len(stmts) = 0 THEN cg ELSE exec_stmts(exec_stmt(cg, stmts[1]), Tail(stmts))

\* for expr in exprs: self.eval_expr(expr)
eval_exprs(cg, exprs) ==
    IF Len(exprs) = 0 THEN cg ELSE eval_exprs(eval_expr(cg, exprs[1]), Tail(exprs))

\* CodeGen.do_exec_Return
do_exec_Return(cg, ret) == emit(eval_expr(cg, ret.value), "return", <<>>)

\* an expression statement that leaves its value on the stack
StmtExpr_without_pop(cg, stmt) == eval_expr(cg, stmt.value)

\* CodeGen.do_exec_StmtExpr
do_exec_StmtExpr(cg, stmt) == emit(eval_expr(cg, stmt.value), "pop_and_discard", <<>>)

\* CodeGen.do_exec_VarDef
do_exec_VarDef(cg, vardef) ==
    IF lookup(vardef.name).scope # "local" THEN raise(cg, "AssertionError")
    ELSE emit(eval_expr(cg, vardef.value), "store_local", <<StrArg(vardef.name)>>)

\* CodeGen.do_exec_Assign
do_exec_Assign(cg, assign) ==
    LET sym == lookup(assign.target)
    IN  IF sym = NoSym THEN raise(cg, "AssertionError")
        ELSE LET cg1 == eval_expr(cg, assign.value)
             IN  IF sym.scope = "local" THEN emit(cg1, "store_local", <<StrArg(assign.target)>>)
                 ELSE IF sym.scope = "global"
                 THEN emit(cg1, "store_global", <<StrArg(assign.target)>>)
                 ELSE raise(cg1, "AssertionError")

\* CodeGen._do_exec_If_then
do_exec_If_then(cg, if_node) ==
    LET mark == get_label(cg)
        cg1 == emit(cg, "mark_if_then", Placeholder)
        cg2 == eval_expr(cg1, if_node.test)
        IF_ == get_label(cg2)
        cg3 == emit(cg2, "br_if_not", Placeholder)
        cg4 == exec_stmts(cg3, if_node.then_body)
        END == get_label(cg4)
        cg5 == set_args(cg4, IF_, <<IntArg(END)>>)
    IN  set_args(cg5, mark, <<IntArg(IF_), IntArg(END)>>)

\* an if/else whose br is never patched
If_then_else_unpatched_br(cg, if_node) ==
    LET mark == get_label(cg)
        cg1 == emit(cg, "mark_if_then_else", Placeholder)
        cg2 == eval_expr(cg1, if_node.test)
        IF_ == get_label(cg2)
        cg3 == emit(cg2, "br_if_not", Placeholder)
        cg4 == exec_stmts(cg3, if_node.then_body)
        cg5 == emit(cg4, "br", Placeholder)
        ELSE_ == get_label(cg5)
        cg6 == exec_stmts(cg5, if_node.else_body)
        END == get_label(cg6)
        cg7 == set_args(cg6, IF_, <<IntArg(ELSE_)>>)
    IN  set_args(cg7, mark, <<IntArg(IF_), IntArg(ELSE_), IntArg(END)>>)

\* an if/else whose br_if_not jumps to the join point and whose br jumps to
\* the else-body
If_then_else_swapped_targets(cg, if_node) ==
    LET mark == get_label(cg)
        cg1 == emit(cg, "mark_if_then_else", Placeholder)
        cg2 == eval_expr(cg1, if_node.test)
        IF_ == get_label(cg2)
        cg3 == emit(cg2, "br_if_not", Placeholder)
        cg4 == exec_stmts(cg3, if_node.then_body)
        br == get_label(cg4)
        cg5 == emit(cg4, "br", Placeholder)
        ELSE_ == get_label(cg5)
        cg6 == exec_stmts(cg5, if_node.else_body)
        END == get_label(cg6)
        cg7 == set_args(cg6, IF_, <<IntArg(END)>>)
        cg8 == set_args(cg7, br, <<IntArg(ELSE_)>>)
    IN  set_args(cg8, mark, <<IntArg(IF_), IntArg(ELSE_), IntArg(END)>>)

\* CodeGen._do_exec_If_then_else
do_exec_If_then_else(cg, if_node) ==
    LET mark == get_label(cg)
        cg1 == emit(cg, "mark_if_then_else", Placeholder)
        cg2 == eval_expr(cg1, if_node.test)
        IF_ == get_label(cg2)
        cg3 == emit(cg2, "br_if_not", Placeholder)
        cg4 == exec_stmts(cg3, if_node.then_body)
        br == get_label(cg4)
        cg5 == emit(cg4, "br", Placeholder)
        ELSE_ == get_label(cg5)
        cg6 == exec_stmts(cg5, if_node.else_body)
        END == get_label(cg6)
        cg7 == set_args(cg6, IF_, <<IntArg(ELSE_)>>)
        cg8 == set_args(cg7, br, <<IntArg(END)>>)
    IN  set_args(cg8, mark, <<IntArg(IF_), IntArg(ELSE_), IntArg(END)>>)

\* CodeGen.do_exec_If
do_exec_If(cg, if_node) ==
    IF Len(if_node.else_body) > 0 THEN do_exec_If_then_else(cg, if_node)
    ELSE do_exec_If_then(cg, if_node)

\* a while whose br jumps back to the mark_while before the condition
While_br_to_mark(cg, while_node) ==
    LET mark == get_label(cg)
        cg1 == emit(cg, "mark_while", Placeholder)
        cg2 == eval_expr(cg1, while_node.test)
        IF_ == get_label(cg2)
        cg3 == emit(cg2, "br_if_not", Placeholder)
        cg4 == exec_stmts(cg3, while_node.body)
        LOOP == get_label(cg4)
        cg5 == emit(cg4, "br", <<IntArg(mark)>>)
        END == get_label(cg5)
        cg6 == set_args(cg5, IF_, <<IntArg(END)>>)
    IN  set_args(cg6, mark, <<IntArg(IF_), IntArg(LOOP)>>)

\* CodeGen.do_exec_While
do_exec_While(cg, while_node) ==
    LET mark == get_label(cg)
        cg1 == emit(cg, "mark_while", Placeholder)
        START == get_label(cg1)
        cg2 == eval_expr(cg1, while_node.test)
        IF_ == get_label(cg2)
        cg3 == emit(cg2, "br_if_not", Placeholder)
        cg4 == exec_stmts(cg3, while_node.body)
        LOOP == get_label(cg4)
        cg5 == emit(cg4, "br", <<IntArg(START)>>)
        END == get_label(cg5)
        cg6 == set_args(cg5, IF_, <<IntArg(END)>>)
    IN  set_args(cg6, mark, <<IntArg(IF_), IntArg(LOOP)>>)

\* CodeGen.do_eval_Constant
do_eval_Constant(cg, const) == emit(cg, "load_const", <<ConstArg(const.value)>>)

\* CodeGen.do_eval_Name
do_eval_Name(cg, expr) ==
    LET sym == lookup(expr.id)
    IN  IF sym = NoSym THEN raise(cg, "AssertionError")
        ELSE IF sym.scope = "local" THEN emit(cg, "load_local", <<StrArg(expr.id)>>)
        ELSE IF sym.scope = "global" THEN emit(cg, "load_global", <<StrArg(expr.id)>>)
        ELSE raise(cg, "AssertionError")

\* CodeGen.do_eval_BinOp
do_eval_BinOp(cg, binop) ==
    LET w_ltype == get_expr_type(binop.left)
        w_rtype == get_expr_type(binop.right)
        operands == eval_expr(eval_expr(cg, binop.left), binop.right)
    IN  IF w_ltype = "i32" /\ w_rtype = "i32"
        THEN IF binop.op = "+" THEN emit(operands, "i32_add", <<>>)
             ELSE IF binop.op = "*" THEN emit(operands, "i32_mul", <<>>)
             ELSE raise(operands, "NotImplementedError")
        ELSE IF w_ltype = "str" /\ w_rtype = "str" /\ binop.op = "+"
        THEN emit(operands, "call_primitive", <<StrArg("str_add")>>)
        ELSE raise(cg, "NotImplementedError")

\* CodeGen.do_eval_CompareOp
do_eval_CompareOp(cg, cmpop) ==
    LET w_ltype == get_expr_type(cmpop.left)
        w_rtype == get_expr_type(cmpop.right)
        operands == eval_expr(eval_expr(cg, cmpop.left), cmpop.right)
    IN  IF w_ltype = "i32" /\ w_rtype = "i32"
        THEN CASE cmpop.op = "==" -> emit(operands, "i32_eq", <<>>)
               [] cmpop.op = "!=" -> emit(operands, "i32_neq", <<>>)
               [] cmpop.op = "<" -> emit(operands, "i32_lt", <<>>)
               [] cmpop.op = "<=" -> emit(operands, "i32_lte", <<>>)
               [] cmpop.op = ">" -> emit(operands, "i32_gt", <<>>)
               [] cmpop.op = ">=" -> emit(operands, "i32_gte", <<>>)
               [] OTHER -> raise(operands, "NotImplementedError")
        ELSE raise(cg, "NotImplementedError")

\* CodeGen.do_eval_Call
do_eval_Call(cg, call) ==
    LET c == is_const(call.func)
    IN  IF c = "AssertionError" THEN raise(cg, "AssertionError")
        ELSE IF c = "False" THEN raise(cg, "SPyCompileError: indirect calls not supported")
        ELSE IF call.func.node # "Name" THEN raise(cg, "AssertionError")
        ELSE emit(eval_exprs(cg, call.args), "call_global",
                  <<StrArg(call.func.id), IntArg(Len(call.args))>>)

\* the labels around a call that returned normally
span(kind, node, cg0, cg1) ==
    IF cg1.err # NoErr THEN cg1
    ELSE [cg1 EXCEPT !.spans = Append(@, [kind |-> kind, node |-> node,
                                          start |-> get_label(cg0), end |-> get_label(cg1)])]

\* CodeGen.exec_stmt: magic_dispatch(self, 'do_exec', stmt)
exec_stmt(cg, stmt) ==
    IF cg.err # NoErr THEN cg
    ELSE span("stmt", stmt, cg,
              CASE stmt.node = "Return" -> do_exec_Return(cg, stmt)
                [] stmt.node = "StmtExpr" -> do_exec_StmtExpr(cg, stmt)
                [] stmt.node = "VarDef" -> do_exec_VarDef(cg, stmt)
                [] stmt.node = "Assign" -> do_exec_Assign(cg, stmt)
                [] stmt.node = "If" -> do_exec_If(cg, stmt)
                [] stmt.node = "While" -> do_exec_While(cg, stmt))

\* CodeGen.eval_expr: magic_dispatch(self, 'do_eval', expr)
eval_expr(cg, expr) ==
    IF cg.err # NoErr THEN cg
    ELSE span("expr", expr, cg,
              CASE expr.node = "Constant" -> do_eval_Constant(cg, expr)
                [] expr.node = "Name" -> do_eval_Name(cg, expr)
                [] expr.node = "BinOp" -> do_eval_BinOp(cg, expr)
                [] expr.node = "CompareOp" -> do_eval_CompareOp(cg, expr)
                [] expr.node = "Call" -> do_eval_Call(cg, expr))

\* CodeGen.__init__: an empty W_CodeObject
CodeGen_init == [body |-> <<>>, err |-> NoErr, ctor |-> <<>>, patches |-> <<>>, spans |-> <<>>]

\* make_w_code with the abort left out when the last opcode emitted by the
\* body is a return
make_w_code_abort_unless_returned(fd) ==
    LET cg1 == exec_stmts(CodeGen_init, fd.body)
    IN  IF fd.w_restype = "void"
        THEN emit(emit(cg1, "load_const", <<w_None>>), "return", <<>>)
        ELSE IF Len(cg1.body) > 0 /\ cg1.body[Len(cg1.body)].name = "return" THEN cg1
        ELSE emit(cg1, "abort",
                  <<StrArg("reached the end of the function without a return")>>)

\* make_w_code with the implicit return only: no abort for the other
\* return types
make_w_code_without_abort(fd) ==
    LET cg1 == exec_stmts(CodeGen_init, fd.body)
    IN  IF fd.w_restype = "void"
        THEN emit(emit(cg1, "load_const", <<w_None>>), "return", <<>>)
        ELSE cg1

\* CodeGen.make_w_code
make_w_code(fd) ==
    LET cg1 == exec_stmts(CodeGen_init, fd.body)
    IN  IF fd.w_restype = "void"
        THEN emit(emit(cg1, "load_const", <<w_None>>), "return", <<>>)
        ELSE emit(cg1, "abort",
                  <<StrArg("reached the end of the function without a return")>>)

(***************************************************************************)
(* The function definitions handed to the compiler.                        *)
(***************************************************************************)
Name(id) == [node |-> "Name", id |-> id]
Constant(v) == [node |-> "Constant", value |-> v, w_type |-> "i32"]
BinOp(op, l, r) == [node |-> "BinOp", op |-> op, left |-> l, right |-> r]
CompareOp(op, l, r) == [node |-> "CompareOp", op |-> op, left |-> l, right |-> r]
Call(func, args) == [node |-> "Call", func |-> func, args |-> args]
Return(e) == [node |-> "Return", value |-> e]
StmtExpr(e) == [node |-> "StmtExpr", value |-> e]
VarDef(name, e) == [node |-> "VarDef", name |-> name, value |-> e]
Assign(target, e) == [node |-> "Assign", target |-> target, value |-> e]
If(test, then_body, else_body) ==
    [node |-> "If", test |-> test, then_body |-> then_body, else_body |-> else_body]
While(test, body) == [node |-> "While", test |-> test, body |-> body]

a_lt_b == CompareOp("<", Name("a"), Name("b"))

\* expressions the compiler lowers
GoodExprs ==
    {Constant(1), Name("a"), Name("g"),
     BinOp("+", Name("a"), Constant(1)),
     BinOp("*", BinOp("+", Name("a"), Constant(1)), Name("g")),
     a_lt_b,
     CompareOp(">=", BinOp("+", Name("a"), Constant(1)), Name("g")),
     Call(Name("f"), <<>>),
     Call(Name("f"), <<Name("a"), BinOp("+", Name("a"), Constant(1))>>)}

\* expressions the compiler rejects
BadExprs ==
    {BinOp("-", Name("a"), Name("b")),
     BinOp("+", Name("s"), Name("s")),
     CompareOp("<", Name("s"), Name("a")),
     Call(Name("a"), <<Constant(1)>>),
     Call(Constant(1), <<>>),
     Name("n")}

Exprs == GoodExprs \cup BadExprs

LeafStmts ==
    {Return(e) : e \in Exprs} \cup {StmtExpr(e) : e \in Exprs}
    \cup {Assign("x", e) : e \in Exprs} \cup {Assign("g", e) : e \in GoodExprs}
    \cup {VarDef("x", e) : e \in GoodExprs} \cup {Assign("n", Constant(1))}

x_is_1 == Assign("x", Constant(1))
x_is_2 == Assign("x", Constant(2))

\* the statements used inside the body of an if or a while
NestLeaves == {x_is_1, Return(Name("a"))}

RECURSIVE Compound(_), Blocks(_)
\* bodies nested at most d deep: one statement, or a compound statement
\* followed by a simple one
Blocks(d) ==
    {<<st>> : st \in NestLeaves}
    \cup (IF d = 0 THEN {}
          ELSE {<<st>> : st \in Compound(d)} \cup {<<st, x_is_1>> : st \in Compound(d)})

\* if and while statements nested at most d deep; of the two bodies of an
\* if/else, at least one is a single simple statement
Compound(d) ==
    LET B == Blocks(d - 1)
        B0 == Blocks(0)
    IN  {While(a_lt_b, b) : b \in B}
        \cup {If(a_lt_b, b, <<>>) : b \in B}
        \cup {If(a_lt_b, b1, b2) : b1 \in B, b2 \in B0}
        \cup {If(a_lt_b, b1, b2) : b1 \in B0, b2 \in B}

\* the example of the specification and loops over other conditions
Examples ==
    {If(a_lt_b, <<x_is_1>>, <<x_is_2>>),
     While(CompareOp(">=", BinOp("+", Name("a"), Constant(1)), Name("g")),
           <<x_is_1, StmtExpr(Call(Name("f"), <<Name("a")>>))>>),
     While(a_lt_b, <<Assign("x", BinOp("+", Name("s"), Name("s")))>>)}

TopStmts == LeafStmts \cup Compound(MaxDepth) \cup Examples

Prefixes == {[i \in 1..k |-> x_is_1] : k \in 0..MaxPrefix}

FuncDefs ==
    {[body |-> pre \o <<st>>, w_restype |-> r] :
        pre \in Prefixes, st \in TopStmts, r \in {"void", "i32"}}

NotCompiled ==
    [body |-> <<>>, err |-> NoErr, ctor |-> <<>>, patches |-> <<>>, spans |-> <<>>,
     done |-> FALSE]

\* CodeGen(vm, t, funcdef).make_w_code()
MakeWCode ==
    /\ ~w_code.done
    /\ LET cg == make_w_code(funcdef)
       IN  w_code' = [body |-> cg.body, err |-> cg.err, ctor |-> cg.ctor,
                      patches |-> cg.patches, spans |-> cg.spans, done |-> TRUE]
    /\ UNCHANGED <<funcdef, qnvars, opvars, bovars, cvvars, lwvars, lyvars>>

CGNext == MakeWCode

(***************************************************************************)
(* Stand-alone OpCode objects, built and patched through the class's API.  *)
(***************************************************************************)
OpNames == {"br_if_not", "mark_while", "call_primitive"}
CtorArgs == {Placeholder, <<>>, <<IntArg(0)>>, <<Ellipsis, Ellipsis>>}
\* set_args(*args: int)
PatchArgs == {<<>>, <<IntArg(1)>>, <<IntArg(0), IntArg(1)>>}

\* OpCode(name, *args)
NewOpCode ==
    /\ Len(ops) < MaxOps
    /\ \E name \in OpNames, args \in CtorArgs :
          LET r == OpCode_init(name, args)
          IN  /\ ops' = IF r.err = NoErr THEN Append(ops, r.op) ELSE ops
              /\ opret' = [call |-> "OpCode", err |-> r.err]
    /\ UNCHANGED <<qnvars, cgvars, bovars, cvvars, lwvars, lyvars>>

\* op.set_args(*args)
SetArgs ==
    /\ \E i \in 1..Len(ops), args \in PatchArgs :
          LET r == OpCode_set_args(ops[i], args)
          IN  /\ ops' = [ops EXCEPT ![i] = r.op]
              /\ opret' = [call |-> "set_args", op |-> i, before |-> ops[i].args,
                           args |-> args, err |-> r.err]
    /\ UNCHANGED <<qnvars, cgvars, bovars, cvvars, lwvars, lyvars>>

OpNext == NewOpCode \/ SetArgs

(***************************************************************************)
(* Operator resolution (vm/modules/operator/binop.py).  A type is its      *)
(* name; a W_OpImpl is the record [ty, fn] naming the function it wraps.   *)
(***************************************************************************)
OpImpl(ty, fn) == [ty |-> ty, fn |-> fn]

\* W_OpImpl.NULL
NULL == OpImpl("", "NULL")

BinOps == {"+", "-", "*", "/", "==", "!=", "<", "<=", ">", ">="}

\* the name shared by the functions registered for an operator: w_i32_add,
\* w_f64_add, ...
fn_of(op) ==
    CASE op = "+" -> "add" [] op = "-" -> "sub" [] op = "*" -> "mul" [] op = "/" -> "div"
      [] op = "==" -> "eq" [] op = "!=" -> "ne" [] op = "<" -> "lt" [] op = "<=" -> "le"
      [] op = ">" -> "gt" [] op = ">=" -> "ge"

\* the registrations without the pairs that have the i32 operand on the left
\* of an f64 operand
MM_registered_one_sided ==
    {<<op, "i32", "i32", OpImpl("i32", fn_of(op))>> : op \in BinOps}
    \cup {<<op, "f64", "f64", OpImpl("f64", fn_of(op))>> : op \in BinOps}
    \cup {<<op, "f64", "i32", OpImpl("f64", fn_of(op))>> : op \in BinOps}
    \cup {<<"+", "str", "str", OpImpl("str", "add")>>,
          <<"*", "str", "i32", OpImpl("str", "mul")>>,
          <<"==", "str", "str", OpImpl("str", "eq")>>,
          <<"!=", "str", "str", OpImpl("str", "ne")>>}

\* MM.register(op, ltype, rtype, impl): <<op, ltype, rtype, impl>>
MM_registered ==
    {<<op, "i32", "i32", OpImpl("i32", fn_of(op))>> : op \in BinOps}
    \cup {<<op, "f64", "f64", OpImpl("f64", fn_of(op))>> : op \in BinOps}
    \cup {<<op, "f64", "i32", OpImpl("f64", fn_of(op))>> : op \in BinOps}
    \cup {<<op, "i32", "f64", OpImpl("f64", fn_of(op))>> : op \in BinOps}
    \cup {<<"+", "str", "str", OpImpl("str", "add")>>,
          <<"*", "str", "i32", OpImpl("str", "mul")>>,
          <<"==", "str", "str", OpImpl("str", "eq")>>,
          <<"!=", "str", "str", OpImpl("str", "ne")>>}

\* MM.register_partial(op, 'dynamic', impl): <<op, impl>>
MM_registered_partial ==
    {<<op, OpImpl("dynamic", fn_of(op))>> : op \in BinOps \ {"-", "/"}}

w_object == "object"

\* the types of the operands: the builtin ones, a class A and its subclass B
Types == {"i32", "f64", "str", "dynamic", w_object, "A", "B"}

\* the base classes of a type, the type itself first
mro(t) ==
    IF t = "B" THEN <<"B", "A", w_object>>
    ELSE IF t = w_object THEN <<w_object>>
    ELSE <<t, w_object>>

\* the op_* method an operator is overridden with
meth_of(op) ==
    CASE op = "+" -> "op_ADD" [] op = "-" -> "op_SUB" [] op = "*" -> "op_MUL"
      [] op = "/" -> "op_DIV" [] op = "==" -> "op_EQ" [] op = "!=" -> "op_NE"
      [] op = "<" -> "op_LT" [] op = "<=" -> "op_LE" [] op = ">" -> "op_GT"
      [] op = ">=" -> "op_GE"

\* the class of the mro of t that defines method m, "" if none overrides it
definer(t, m) ==
    LET k == {i \in 1..Len(mro(t)) : <<mro(t)[i], m>> \in overridden}
    IN  IF k = {} THEN "" ELSE mro(t)[CHOOSE i \in k : \A j \in k : i <= j]

\* pyclass.has_meth_overriden(m)
has_meth_overriden(t, m) == definer(t, m) # ""

\* pyclass.op_XX(vm, wop_l, wop_r): the W_OpImpl the override returns
call_override(t, m) == OpImpl(definer(t, m), m)

\* vm.union_type: the nearest common ancestor
union_type(l, r) ==
    IF l = r THEN l ELSE IF {l, r} = {"A", "B"} THEN "A" ELSE w_object

\* W_Type.is_reference_type
is_reference_type(t) == t \in {"A", "B", w_object}

\* the result of a resolution: the W_OpImpl, whether typecheck_opimpl was
\* applied to it, and the error raised
Resolved(impl, checked) == [impl |-> impl, checked |-> checked, err |-> NoErr]

\* typecheck_opimpl(vm, w_opimpl, [wop_l, wop_r], ...); `okay` tells whether
\* the W_OpImpl accepts the two operands
typecheck_opimpl(impl, okay) ==
    IF impl = NULL \/ ~okay THEN [impl |-> impl, checked |-> TRUE, err |-> "SPyTypeError"]
    ELSE Resolved(impl, TRUE)

\* the W_OpImpl registered for the exact pair, NULL if there is none
exact_pair(op, l, r) ==
    LET found == {e \in MM_registered : e[1] = op /\ e[2] = l /\ e[3] = r}
    IN  IF found = {} THEN NULL ELSE (CHOOSE e \in found : TRUE)[4]

\* the W_OpImpl registered for the operator with a dynamic side
partial_match(op, l, r) ==
    LET found == {e \in MM_registered_partial : e[1] = op}
    IN  IF found = {} \/ "dynamic" \notin {l, r} THEN NULL
        ELSE (CHOOSE e \in found : TRUE)[2]

\* can_use_reference_eq without the test of the universal root
reference_eq_for_any_ancestor(l, r) == is_reference_type(union_type(l, r))

\* can_use_reference_eq
can_use_reference_eq(l, r) ==
    LET w_common == union_type(l, r)
    IN  w_common # w_object /\ is_reference_type(w_common)

\* MultiMethodTable.lookup
MM_lookup(op, l, r, okay) ==
    IF exact_pair(op, l, r) # NULL THEN typecheck_opimpl(exact_pair(op, l, r), TRUE)
    ELSE IF has_meth_overriden(l, meth_of(op))
    THEN typecheck_opimpl(call_override(l, meth_of(op)), okay)
    ELSE IF has_meth_overriden(r, meth_of(op))
    THEN typecheck_opimpl(call_override(r, meth_of(op)), okay)
    ELSE IF op = "==" /\ can_use_reference_eq(l, r)
    THEN typecheck_opimpl(OpImpl("object", "is"), TRUE)
    ELSE IF op = "!=" /\ can_use_reference_eq(l, r)
    THEN typecheck_opimpl(OpImpl("object", "isnot"), TRUE)
    ELSE IF partial_match(op, l, r) # NULL THEN typecheck_opimpl(partial_match(op, l, r), TRUE)
    ELSE Resolved(NULL, FALSE)

\* w_ADD, w_SUB, w_MUL, w_DIV
w_ARITH(op, l, r, okay) == MM_lookup(op, l, r, okay)

\* w_EQ
w_EQ(l, r, okay) ==
    IF has_meth_overriden(l, "op_EQ") THEN typecheck_opimpl(call_override(l, "op_EQ"), okay)
    ELSE IF can_use_reference_eq(l, r) THEN typecheck_opimpl(OpImpl("object", "is"), TRUE)
    ELSE MM_lookup("==", l, r, okay)

\* w_NE
w_NE(l, r, okay) ==
    IF has_meth_overriden(l, "op_NE") THEN typecheck_opimpl(call_override(l, "op_NE"), okay)
    ELSE IF can_use_reference_eq(l, r) THEN typecheck_opimpl(OpImpl("object", "isnot"), TRUE)
    ELSE MM_lookup("!=", l, r, okay)

\* w_LT, w_LE, w_GT, w_GE
w_CMP(op, l, r, okay) == MM_lookup(op, l, r, okay)

\* the op_* methods the classes of a program may define; the classes of the
\* numbers i32 and f64 are plain value classes and define none
Overridable ==
    {<<"str", "op_EQ">>, <<"str", "op_NE">>, <<"A", "op_EQ">>, <<"B", "op_EQ">>,
     <<"B", "op_NE">>, <<"A", "op_ADD">>, <<"B", "op_LT">>}

NoResolution == [op |-> "none"]

Resolution(op, l, r, res) == [op |-> op, l |-> l, r |-> r, res |-> res]

\* The resolution of one use site: operator.ADD / SUB / MUL / DIV on
\* operands of static types l and r
Resolve_ARITH ==
    /\ binret = NoResolution
    /\ \E op \in {"+", "-", "*", "/"}, l \in Types, r \in Types, okay \in BOOLEAN :
          binret' = Resolution(op, l, r, w_ARITH(op, l, r, okay))
    /\ UNCHANGED <<overridden, qnvars, cgvars, opvars, cvvars, lwvars, lyvars>>

\* operator.EQ
Resolve_EQ ==
    /\ binret = NoResolution
    /\ \E l \in Types, r \in Types, okay \in BOOLEAN :
          binret' = Resolution("==", l, r, w_EQ(l, r, okay))
    /\ UNCHANGED <<overridden, qnvars, cgvars, opvars, cvvars, lwvars, lyvars>>

\* operator.NE
Resolve_NE ==
    /\ binret = NoResolution
    /\ \E l \in Types, r \in Types, okay \in BOOLEAN :
          binret' = Resolution("!=", l, r, w_NE(l, r, okay))
    /\ UNCHANGED <<overridden, qnvars, cgvars, opvars, cvvars, lwvars, lyvars>>

\* operator.LT / LE / GT / GE
Resolve_CMP ==
    /\ binret = NoResolution
    /\ \E op \in {"<", "<=", ">", ">="}, l \in Types, r \in Types, okay \in BOOLEAN :
          binret' = Resolution(op, l, r, w_CMP(op, l, r, okay))
    /\ UNCHANGED <<overridden, qnvars, cgvars, opvars, cvvars, lwvars, lyvars>>

BinopNext == Resolve_ARITH \/ Resolve_EQ \/ Resolve_NE \/ Resolve_CMP

(***************************************************************************)
(* Conversion resolution (vm/modules/operator/convop.py).                  *)
(***************************************************************************)
\* the static types a conversion is asked between
ConvTypes == Types \cup {"bool"}

\* vm.issubclass(w_sub, w_super): every type is a subclass of dynamic
issubclass(sub, super) ==
    super = "dynamic" \/ \E i \in 1..Len(mro(sub)) : mro(sub)[i] = super

\* MM.register('convert', from, to, impl): <<'convert', from, to, impl>>
MM_convert_registered ==
    {<<"convert", "i32", "f64", OpImpl("i32", "to_f64")>>,
     <<"convert", "i32", "bool", OpImpl("i32", "to_bool")>>}

\* MM.lookup('convert', w_got, w_exp): the W_OpImpl registered for the exact
\* pair, NULL if there is none
convert_lookup(got, exp) ==
    LET found == {e \in MM_convert_registered : e[2] = got /\ e[3] = exp}
    IN  IF found = {} THEN NULL ELSE (CHOOSE e \in found : TRUE)[4]

\* w_from_dynamic(vm, w_T): the function operator::from_dynamic[T]
w_from_dynamic(w_T) == OpImpl(w_T, "from_dynamic")

\* what get_opimpl returns: the W_OpImpl, the exception raised, and what it
\* consulted on the way (the table, the extensions)
Got(impl, err, consulted) == [impl |-> impl, err |-> err, consulted |-> consulted]

\* get_opimpl without the branch for a source type that is an ancestor of
\* the destination type
get_opimpl_without_typecheck_branch(w_exp, w_got, to_yields, from_yields) ==
    IF issubclass(w_got, w_exp) THEN Got(NULL, "AssertionError", {})
    ELSE IF convert_lookup(w_got, w_exp) # NULL
    THEN Got(convert_lookup(w_got, w_exp), NoErr, {"MM"})
    ELSE IF has_meth_overriden(w_got, "op_CONVERT_TO")
    THEN Got(IF to_yields THEN call_override(w_got, "op_CONVERT_TO") ELSE NULL,
             NoErr, {"MM", "op_CONVERT_TO"})
    ELSE IF has_meth_overriden(w_exp, "op_CONVERT_FROM")
    THEN Got(IF from_yields THEN call_override(w_exp, "op_CONVERT_FROM") ELSE NULL,
             NoErr, {"MM", "op_CONVERT_FROM"})
    ELSE Got(NULL, NoErr, {"MM"})

\* get_opimpl(vm, w_exp, wop_x), w_got being the static type of wop_x;
\* to_yields and from_yields tell whether the extension op_CONVERT_TO of the
\* source class, and op_CONVERT_FROM of the destination class, return a
\* W_OpImpl for this pair of types or W_OpImpl.NULL
get_opimpl(w_exp, w_got, to_yields, from_yields) ==
    IF issubclass(w_got, w_exp) THEN Got(NULL, "AssertionError", {})
    ELSE IF issubclass(w_exp, w_got) THEN Got(w_from_dynamic(w_exp), NoErr, {})
    ELSE IF convert_lookup(w_got, w_exp) # NULL
    THEN Got(convert_lookup(w_got, w_exp), NoErr, {"MM"})
    ELSE IF has_meth_overriden(w_got, "op_CONVERT_TO")
    THEN Got(IF to_yields THEN call_override(w_got, "op_CONVERT_TO") ELSE NULL,
             NoErr, {"MM", "op_CONVERT_TO"})
    ELSE IF has_meth_overriden(w_exp, "op_CONVERT_FROM")
    THEN Got(IF from_yields THEN call_override(w_exp, "op_CONVERT_FROM") ELSE NULL,
             NoErr, {"MM", "op_CONVERT_FROM"})
    ELSE Got(NULL, NoErr, {"MM"})

\* w_CONVERT(vm, w_exp, wop_x): the function returned (NULL when it raised),
\* the exception, and the words and human names that make up the text of
\* its error
w_CONVERT(w_exp, w_got, to_yields, from_yields) ==
    LET w_opimpl == get_opimpl(w_exp, w_got, to_yields, from_yields)
    IN  IF w_opimpl.err # NoErr
        THEN [func |-> NULL, err |-> w_opimpl.err, msg |-> <<>>,
              consulted |-> w_opimpl.consulted]
        ELSE IF w_opimpl.impl # NULL
        THEN [func |-> w_opimpl.impl, err |-> NoErr, msg |-> <<>>,
              consulted |-> w_opimpl.consulted]
        ELSE [func |-> NULL, err |-> "SPyTypeError",
              msg |-> <<"expected", w_exp, "got", w_got>>,
              consulted |-> w_opimpl.consulted]

\* CONVERT_maybe(vm, w_exp, wop_x): None when the types are already compatible
CONVERT_maybe(w_exp, w_got, to_yields, from_yields) ==
    IF issubclass(w_got, w_exp)
    THEN [func |-> OpImpl("", "None"), err |-> NoErr, msg |-> <<>>, consulted |-> {}]
    ELSE w_CONVERT(w_exp, w_got, to_yields, from_yields)

\* the conversion extensions the classes of a program may define
ConvOverridable ==
    {<<"A", "op_CONVERT_TO">>, <<"B", "op_CONVERT_FROM">>, <<"str", "op_CONVERT_TO">>,
     <<"str", "op_CONVERT_FROM">>, <<"bool", "op_CONVERT_FROM">>}

NoConversion == [call |-> "none"]

\* The resolution of one conversion: operator.CONVERT called on its own
Call_w_CONVERT ==
    /\ convret = NoConversion
    /\ \E w_exp \in ConvTypes, w_got \in ConvTypes, to_yields \in BOOLEAN,
          from_yields \in BOOLEAN :
          convret' = [call |-> "w_CONVERT", exp |-> w_exp, got |-> w_got,
                      to_yields |-> to_yields, from_yields |-> from_yields,
                      res |-> w_CONVERT(w_exp, w_got, to_yields, from_yields)]
    /\ UNCHANGED <<qnvars, cgvars, opvars, bovars, lwvars, lyvars>>

\* CONVERT_maybe, as the type checker calls it
Call_CONVERT_maybe ==
    /\ convret = NoConversion
    /\ \E w_exp \in ConvTypes, w_got \in ConvTypes, to_yields \in BOOLEAN,
          from_yields \in BOOLEAN :
          convret' = [call |-> "CONVERT_maybe", exp |-> w_exp, got |-> w_got,
                      to_yields |-> to_yields, from_yields |-> from_yields,
                      res |-> CONVERT_maybe(w_exp, w_got, to_yields, from_yields)]
    /\ UNCHANGED <<qnvars, cgvars, opvars, bovars, lwvars, lyvars>>

ConvNext == Call_w_CONVERT \/ Call_CONVERT_maybe

(***************************************************************************)
(* Type lowering (backend/c/context.py).  A type descriptor is a name.     *)
(* The builtin ones are "i32", ...; "type" is B.w_type and "func" is a     *)
(* function type, a kind w2c does not translate.  The descriptors of the   *)
(* program are T1, T2, ...: w_types maps each to its kind and the types    *)
(* it refers to (the item type of a pointer, the low-level type of a       *)
(* lifted type, the field types of a struct in declared order; a field is  *)
(* named by its position).                                                 *)
(***************************************************************************)
TypeNames == <<"T1", "T2", "T3", "T4">>

\* the descriptors W_PtrType, W_StructType and W_LiftedType of a program
TypeIds == {TypeNames[i] : i \in 1..MaxTypes}

\* the finite type graphs: a pointer or a lifted type refers to a builtin
\* type or to any descriptor, the fields of a struct to any descriptor or to
\* a function type
Descriptors ==
    [kind : {"ptr", "lifted"}, refs : {<<r>> : r \in TypeIds \cup {"i32"}}]
    \cup [kind : {"struct"}, refs : SeqsUpTo(TypeIds \cup {"func"}, MaxFields)]

\* C_Type(name)
C_Type(name) == [name |-> name]

\* one piece of text written to a TextBuilder: the text, the C type it
\* declares or defines, the C type it mentions and the field it names
Line(text, c_type, c_ref, field) ==
    [text |-> text, c_type |-> c_type, c_ref |-> c_ref, field |-> field]

\* Context.__init__, the three builders set by CModuleWriter.emit_module
Context_init ==
    [d |-> [t \in {"void", "i32", "f64", "bool", "str", "RawBuffer", "JsRef"} |->
               CASE t = "void" -> C_Type(<<"void">>)
                 [] t = "i32" -> C_Type(<<"int32_t">>)
                 [] t = "f64" -> C_Type(<<"double">>)
                 [] t = "bool" -> C_Type(<<"bool">>)
                 [] t = "str" -> C_Type(<<"spy_Str *">>)
                 [] t = "RawBuffer" -> C_Type(<<"spy_RawBuffer *">>)
                 [] t = "JsRef" -> C_Type(<<"JsRef">>)],
     out_types_decl |-> <<>>, out_ptrs_def |-> <<>>, out_types_def |-> <<>>,
     err |-> NoErr, ret |-> C_Type(<<>>), deepest |-> 0]

\* self._d[w_type] = c_type
setitem(d, w_type, c_type) ==
    [t \in DOMAIN d \cup {w_type} |-> IF t = w_type THEN c_type ELSE d[t]]

\* w_type.fqn.c_name
fqn_c_name(w_type) == <<"spy", w_type>>

\* Every method takes the Context c and returns it, with the value returned
\* in c.ret or the exception raised in c.err; depth is the number of w2c
\* frames on the stack, and a call deeper than the interpreter's recursion
\* limit raises RecursionError.
RECURSIVE w2c(_, _, _)
RECURSIVE new_ptr_type(_, _, _)
RECURSIVE new_struct_type(_, _, _)
RECURSIVE new_struct_type_fields(_, _, _, _, _)
RECURSIVE new_lifted_type(_, _, _)

\* new_ptr_type without the registration of the mapping
new_ptr_type_unregistered(c, w_ptrtype, depth) ==
    LET c_ptrtype == C_Type(fqn_c_name(w_ptrtype))
        after_w2c(r) ==
            IF r.err # NoErr THEN r
            ELSE [r EXCEPT
                    !.out_types_decl = Append(@, Line("typedef struct { *p }", c_ptrtype, r.ret, 0)),
                    !.out_ptrs_def = Append(@, Line("SPY_PTR_FUNCTIONS", c_ptrtype, r.ret, 0)),
                    !.ret = c_ptrtype]
    IN  after_w2c(w2c(c, w_types[w_ptrtype].refs[1], depth + 1))

\* Context.new_ptr_type
new_ptr_type(c, w_ptrtype, depth) ==
    LET c_ptrtype == C_Type(fqn_c_name(w_ptrtype))
        after_w2c(r) ==
            IF r.err # NoErr THEN r
            ELSE [r EXCEPT
                    !.out_types_decl = Append(@, Line("typedef struct { *p }", c_ptrtype, r.ret, 0)),
                    !.out_ptrs_def = Append(@, Line("SPY_PTR_FUNCTIONS", c_ptrtype, r.ret, 0)),
                    !.d = setitem(@, w_ptrtype, c_ptrtype),
                    !.ret = c_ptrtype]
    IN  after_w2c(w2c(c, w_types[w_ptrtype].refs[1], depth + 1))

\* the loop over w_st.fields and the end of new_struct_type: `out` is the
\* detached builder, attached to out_types_def once the struct is complete
new_struct_type_fields(c, w_st, i, out, depth) ==
    LET c_struct_type == C_Type(fqn_c_name(w_st))
        after_w2c(r) ==
            IF r.err # NoErr THEN r
            ELSE new_struct_type_fields(r, w_st, i + 1,
                     Append(out, Line("field", c_struct_type, r.ret, i)), depth)
    IN  IF i > Len(w_types[w_st].refs)
        THEN [c EXCEPT
                !.out_types_def = @ \o out \o <<Line("};", c_struct_type, C_Type(<<>>), 0),
                                                Line("", c_struct_type, C_Type(<<>>), 0)>>,
                !.ret = c_struct_type]
        ELSE after_w2c(w2c(c, w_types[w_st].refs[i], depth + 1))

\* new_struct_type writing to out_types_def itself instead of a detached
\* builder
new_struct_type_attached(c, w_st, depth) ==
    LET c_struct_type == C_Type(fqn_c_name(w_st))
        after_fields(before, r) ==
            IF r.err # NoErr THEN r
            ELSE [r EXCEPT !.out_types_def =
                     before \o <<Line("struct {", c_struct_type, C_Type(<<>>), 0)>>
                     \o SubSeq(@, Len(before) + 1, Len(@))]
    IN  after_fields(c.out_types_def, new_struct_type_fields(
            [c EXCEPT !.d = setitem(@, w_st, c_struct_type),
                      !.out_types_decl = Append(@, Line("typedef struct", c_struct_type,
                                                         C_Type(<<>>), 0))],
            w_st, 1, <<>>, depth))

\* Context.new_struct_type
new_struct_type(c, w_st, depth) ==
    LET c_struct_type == C_Type(fqn_c_name(w_st))
    IN  new_struct_type_fields(
            [c EXCEPT !.d = setitem(@, w_st, c_struct_type),
                      !.out_types_decl = Append(@, Line("typedef struct", c_struct_type,
                                                         C_Type(<<>>), 0))],
            w_st, 1, <<Line("struct {", c_struct_type, C_Type(<<>>), 0)>>, depth)

\* Context.new_lifted_type
new_lifted_type(c, w_hltype, depth) ==
    LET c_hltype == C_Type(fqn_c_name(w_hltype))
        after_w2c(r) ==
            IF r.err # NoErr THEN r
            ELSE [r EXCEPT
                    !.out_types_decl = Append(@, Line("typedef struct { ll }", c_hltype, r.ret, 0)),
                    !.out_ptrs_def = Append(@, Line("SPY_TYPELIFT_FUNCTIONS", c_hltype, r.ret, 0)),
                    !.d = setitem(@, w_hltype, c_hltype),
                    !.ret = c_hltype]
    IN  after_w2c(w2c(c, w_types[w_hltype].refs[1], depth + 1))

\* Context.w2c
w2c(c, w_type, depth) ==
    IF depth > MaxRecursion THEN [c EXCEPT !.err = "RecursionError"]
    ELSE LET c1 == [c EXCEPT !.deepest = IF depth > @ THEN depth ELSE @]
         IN  IF w_type \in DOMAIN c1.d THEN [c1 EXCEPT !.ret = c1.d[w_type]]
             ELSE IF w_type \in TypeIds /\ w_types[w_type].kind = "ptr"
             THEN new_ptr_type(c1, w_type, depth)
             ELSE IF w_type \in TypeIds /\ w_types[w_type].kind = "struct"
             THEN new_struct_type(c1, w_type, depth)
             ELSE IF w_type \in TypeIds /\ w_types[w_type].kind = "lifted"
             THEN new_lifted_type(c1, w_type, depth)
             ELSE IF w_type = "type" THEN [c1 EXCEPT !.ret = C_Type(<<"void *">>)]
             ELSE [c1 EXCEPT !.err = "NotImplementedError"]

\* One call of ctx.w2c by the C backend.  An exception leaves the Context as
\* the unwinding left it; the call and how it ended are appended to w2c_calls.
W2C ==
    /\ Len(w2c_calls) < MaxCalls
    /\ \E w_type \in TypeIds \cup {"type"} :
          LET r == w2c([ctx EXCEPT !.err = NoErr, !.deepest = 0], w_type, 1)
          IN  /\ ctx' = r
              /\ w2c_calls' = Append(w2c_calls,
                     [w_type |-> w_type, err |-> r.err,
                      ret |-> IF r.err = NoErr THEN r.ret ELSE C_Type(<<>>)])
    /\ UNCHANGED <<w_types, qnvars, cgvars, opvars, bovars, cvvars, lyvars>>

LowerNext == W2C

(***************************************************************************)
(* Struct layout (vm/modules/unsafe/struct.py).  The fields of a struct    *)
(* are given by their sizes, in declared order.                            *)
(***************************************************************************)
\* the sizes sizeof gives to the types of the fields: bool 1, i32 4, f64 8,
\* and structs of sizes 2 and 3
FieldSizes == {1, 2, 3, 4, 8}

RECURSIVE and_not(_, _)
\* x & ~m on Python integers, for x >= 0 and m >= 0
and_not(x, m) ==
    IF x = 0 THEN 0
    ELSE (IF x % 2 = 1 /\ m % 2 = 0 THEN 1 ELSE 0) + 2 * and_not(x \div 2, m \div 2)

RECURSIVE calc_layout_at_next_boundary(_, _, _, _)
\* the loop of calc_layout with the alignment computed from field_size
\* instead of field_size - 1
calc_layout_at_next_boundary(fields, i, offset, offsets) ==
    IF i > Len(fields) THEN [offsets |-> offsets, size |-> offset]
    ELSE LET field_size == fields[i]
             aligned == and_not(offset + field_size, field_size - 1)
         IN  calc_layout_at_next_boundary(fields, i + 1, aligned + field_size,
                                          Append(offsets, aligned))

RECURSIVE calc_layout_round_down(_, _, _, _)
\* the loop of calc_layout with the running offset itself masked, which
\* rounds down
calc_layout_round_down(fields, i, offset, offsets) ==
    IF i > Len(fields) THEN [offsets |-> offsets, size |-> offset]
    ELSE LET field_size == fields[i]
             aligned == and_not(offset, field_size - 1)
         IN  calc_layout_round_down(fields, i + 1, aligned + field_size,
                                    Append(offsets, aligned))

RECURSIVE calc_layout_loop(_, _, _, _)
\* the loop of calc_layout over fields.items()
calc_layout_loop(fields, i, offset, offsets) ==
    IF i > Len(fields) THEN [offsets |-> offsets, size |-> offset]
    ELSE LET field_size == fields[i]
             aligned == and_not(offset + (field_size - 1), field_size - 1)
         IN  calc_layout_loop(fields, i + 1, aligned + field_size, Append(offsets, aligned))

\* calc_layout(fields)
calc_layout(fields) == calc_layout_loop(fields, 1, 0, <<>>)

NoLayout == [offsets |-> <<>>, size |-> 0, done |-> FALSE]

\* W_StructType.__init__: the layout of the struct is computed once
CalcLayout ==
    /\ ~layout.done
    /\ layout' = [offsets |-> calc_layout(st_fields).offsets,
                  size |-> calc_layout(st_fields).size, done |-> TRUE]
    /\ UNCHANGED <<st_fields, qnvars, cgvars, opvars, bovars, cvvars, lwvars>>

LayoutNext == CalcLayout

(***************************************************************************)
(* The specifications: one per component, the others idle.                 *)
(***************************************************************************)
InitQN ==
    /\ nsparts = <<>> /\ fqns = <<>> /\ qnret = NoCall
    /\ funcdef = [body |-> <<>>, w_restype |-> "void"] /\ w_code = NotCompiled
    /\ ops = <<>> /\ opret = [call |-> "none"]
    /\ overridden = {} /\ binret = NoResolution
    /\ convret = NoConversion
    /\ w_types = <<>> /\ ctx = Context_init /\ w2c_calls = <<>>
    /\ st_fields = <<>> /\ layout = NoLayout

SpecQN == InitQN /\ [][QNNext]_vars

SpecParse == InitQN /\ [][ParseNext]_vars

SpecMangle == InitQN /\ [][MangleNext]_vars

InitCG ==
    /\ funcdef \in FuncDefs /\ w_code = NotCompiled
    /\ nsparts = <<>> /\ fqns = <<>> /\ qnret = NoCall
    /\ ops = <<>> /\ opret = [call |-> "none"]
    /\ overridden = {} /\ binret = NoResolution
    /\ convret = NoConversion
    /\ w_types = <<>> /\ ctx = Context_init /\ w2c_calls = <<>>
    /\ st_fields = <<>> /\ layout = NoLayout

SpecCG == InitCG /\ [][CGNext]_vars

InitOpCode ==
    /\ ops = <<>> /\ opret = [call |-> "none"]
    /\ nsparts = <<>> /\ fqns = <<>> /\ qnret = NoCall
    /\ funcdef = [body |-> <<>>, w_restype |-> "void"] /\ w_code = NotCompiled
    /\ overridden = {} /\ binret = NoResolution
    /\ convret = NoConversion
    /\ w_types = <<>> /\ ctx = Context_init /\ w2c_calls = <<>>
    /\ st_fields = <<>> /\ layout = NoLayout

SpecOpCode == InitOpCode /\ [][OpNext]_vars

InitBinop ==
    /\ overridden \in SUBSET Overridable /\ binret = NoResolution
    /\ convret = NoConversion
    /\ w_types = <<>> /\ ctx = Context_init /\ w2c_calls = <<>>
    /\ st_fields = <<>> /\ layout = NoLayout
    /\ nsparts = <<>> /\ fqns = <<>> /\ qnret = NoCall
    /\ funcdef = [body |-> <<>>, w_restype |-> "void"] /\ w_code = NotCompiled
    /\ ops = <<>> /\ opret = [call |-> "none"]

SpecBinop == InitBinop /\ [][BinopNext]_vars

InitConv ==
    /\ overridden \in SUBSET ConvOverridable /\ convret = NoConversion
    /\ w_types = <<>> /\ ctx = Context_init /\ w2c_calls = <<>>
    /\ st_fields = <<>> /\ layout = NoLayout
    /\ binret = NoResolution
    /\ nsparts = <<>> /\ fqns = <<>> /\ qnret = NoCall
    /\ funcdef = [body |-> <<>>, w_restype |-> "void"] /\ w_code = NotCompiled
    /\ ops = <<>> /\ opret = [call |-> "none"]

SpecConv == InitConv /\ [][ConvNext]_vars

InitLower ==
    /\ w_types \in [TypeIds -> Descriptors]
    /\ ctx = Context_init /\ w2c_calls = <<>>
    /\ st_fields = <<>> /\ layout = NoLayout
    /\ overridden = {} /\ binret = NoResolution /\ convret = NoConversion
    /\ nsparts = <<>> /\ fqns = <<>> /\ qnret = NoCall
    /\ funcdef = [body |-> <<>>, w_restype |-> "void"] /\ w_code = NotCompiled
    /\ ops = <<>> /\ opret = [call |-> "none"]

SpecLower == InitLower /\ [][LowerNext]_vars

InitLayout ==
    /\ st_fields \in SeqsUpTo(FieldSizes, MaxLayoutFields) /\ layout = NoLayout
    /\ w_types = <<>> /\ ctx = Context_init /\ w2c_calls = <<>>
    /\ overridden = {} /\ binret = NoResolution /\ convret = NoConversion
    /\ nsparts = <<>> /\ fqns = <<>> /\ qnret = NoCall
    /\ funcdef = [body |-> <<>>, w_restype |-> "void"] /\ w_code = NotCompiled
    /\ ops = <<>> /\ opret = [call |-> "none"]

SpecLayout == InitLayout /\ [][LayoutNext]_vars

(***************************************************************************)
(* Claims about the qualified-name system.                                 *)
(***************************************************************************)
\* everything an observer can read off the FQN object q
QNView(q) ==
    [segments |-> QN(q), fullname |-> fullname(QN(q)),
     hash |-> FQN_hash(QN(q)), c_name |-> c_name(QN(q))]

\* C1: a QN is immutable once built: no call changes the segments, the
\* canonical string, the hash or the mangled name of an existing QN, and
\* q.with_suffix(s) returns a new QN whose last segment has suffix s.
C1_QNImmutable ==
    [][ /\ \A q \in FQNRefs : QNView(q)' = QNView(q)
        /\ (qnret'.op = "with_suffix" /\ fqns' # fqns) =>
              /\ qnret'.res \notin FQNRefs
              /\ FQN_suffix(FQN_val(nsparts', fqns', qnret'.res)) = qnret'.arg ]_vars

RECURSIVE HasSegments(_)
\* every QN in q, at every qualifier nesting level, has at least one segment
HasSegments(q) ==
    /\ Len(q) > 0
    /\ \A i \in 1..Len(q) :
          \A j \in 1..Len(q[i].qualifiers) : HasSegments(q[i].qualifiers[j])

\* C2: parse and print are exact inverses: parsing the canonical string of
\* a constructible QN (one with at least one segment at every level)
\* succeeds and yields a QN equal to it.
C2_ParsePrintInverse ==
    (qnret.op = "parse" /\ HasSegments(QN(qnret.self))) =>
        /\ qnret.res.err = NoErr
        /\ FQN_eq(qnret.res.val, QN(qnret.self))

\* C3: the mangled identifiers of two QNs are equal if and only if the QNs
\* are equal (have the identical canonical string).
C3_MangledEqualIffEqual ==
    \A a, b \in FQNRefs :
        (~raised(fullname(QN(a))) /\ ~raised(fullname(QN(b)))) =>
            ((c_name(QN(a)) = c_name(QN(b))) <=> FQN_eq(QN(a), QN(b)))

(***************************************************************************)
(* Claims about the compiler.                                              *)
(***************************************************************************)
\* the opcode at label l of the compiled body
OpAt(l) == w_code.body[l + 1]

Labels == 0..(Len(w_code.body) - 1)

\* how many times the arguments of the opcode at label l were assigned: at
\* construction unless it was built with the placeholder, and by set_args
AssignCount(l) ==
    (IF w_code.ctor[l + 1] = Placeholder THEN 0 ELSE 1)
    + Cardinality({k \in 1..Len(w_code.patches) : w_code.patches[k] = l})

\* C4: when the compilation of a function body completes, every br and
\* br_if_not has had its target assigned exactly once, the target is an
\* integer in 0..len(body), and no opcode, branch or marker, still carries
\* the placeholder.
C4_BranchTargetsResolved ==
    (w_code.done /\ w_code.err = NoErr) =>
        \A l \in Labels :
            /\ OpAt(l).args # Placeholder
            /\ \A k \in 1..Len(OpAt(l).args) : OpAt(l).args[k] # Ellipsis
            /\ is_br(OpAt(l)) =>
                  /\ AssignCount(l) = 1
                  /\ Len(OpAt(l).args) = 1
                  /\ OpAt(l).args[1].k = "int"
                  /\ OpAt(l).args[1].i \in 0..Len(w_code.body)

\* a completed compilation with a patched br_if_not, a patched br and a br
\* built with its target
C4_Witness ==
    /\ w_code.done /\ w_code.err = NoErr
    /\ \E l1, l2, l3 \in Labels :
          /\ OpAt(l1).name = "br_if_not" /\ w_code.ctor[l1 + 1] = Placeholder
          /\ OpAt(l2).name = "br" /\ w_code.ctor[l2 + 1] = Placeholder
          /\ OpAt(l3).name = "br" /\ w_code.ctor[l3 + 1] # Placeholder

\* C5: set_args on an opcode whose arguments are not the placeholder fails
\* and leaves the arguments unchanged; on a placeholder it replaces the
\* arguments, and from then on every set_args on that opcode fails.
C5_PatchedExactlyOnce ==
    /\ [](opret.call = "set_args" =>
            IF opret.before # Placeholder
            THEN opret.err # NoErr /\ ops[opret.op].args = opret.before
            ELSE opret.err = NoErr /\ ops[opret.op].args = opret.args)
    /\ [][\A i \in 1..Len(ops) :
            ops[i].args # Placeholder =>
                /\ ops'[i].args = ops[i].args
                /\ (opret'.call = "set_args" /\ opret'.op = i) => opret'.err # NoErr]_vars

\* a set_args that failed on an opcode an earlier set_args had patched
C5_Witness ==
    /\ opret.call = "set_args" /\ opret.err # NoErr
    /\ opret.before = <<IntArg(0), IntArg(1)>>
    /\ ops[opret.op].args = opret.before

\* exec_stmt or eval_expr of `node` returned after emitting the labels s..e-1
HasSpan(kind, node, s, e) ==
    \E k \in 1..Len(w_code.spans) :
        w_code.spans[k] = [kind |-> kind, node |-> node, start |-> s, end |-> e]

RECURSIVE Chained(_, _, _)
\* the statements of a block were compiled one after the other into s..e-1
Chained(stmts, s, e) ==
    IF Len(stmts) = 0 THEN s = e
    ELSE \E m \in s..e : HasSpan("stmt", stmts[1], s, m) /\ Chained(Tail(stmts), m, e)

\* the spans of the statements of one kind
StmtSpans(node) ==
    {w_code.spans[k] : k \in {j \in 1..Len(w_code.spans) :
        w_code.spans[j].kind = "stmt" /\ w_code.spans[j].node.node = node}}

\* C6: a while statement compiles, after its marker, to the condition, one
\* br_if_not, the body and one br; the br targets START, the label of the
\* first opcode of the condition, and the br_if_not targets END, the label
\* right after the br; at any nesting depth and any offset.
C6_WhileLayout ==
    w_code.done =>
        \A sp \in StmtSpans("While") :
            LET START == sp.start + 1
                END == sp.end
                LOOP == END - 1
            IN  /\ OpAt(sp.start).name = "mark_while"
                /\ \E IF_ \in (START + 1)..(LOOP - 1) :
                      /\ HasSpan("expr", sp.node.test, START, IF_)
                      /\ OpAt(IF_) = [name |-> "br_if_not", args |-> <<IntArg(END)>>]
                      /\ Chained(sp.node.body, IF_ + 1, LOOP)
                /\ OpAt(LOOP) = [name |-> "br", args |-> <<IntArg(START)>>]

\* a while nested in another statement, compiled at an offset
C6_Witness ==
    /\ w_code.done /\ w_code.err = NoErr
    /\ \E sp \in StmtSpans("While") : sp.start > 0 /\ sp.node.body[1].node = "While"

\* the labels s..e-1 whose opcode has one of the names
Named(s, e, names) == {l \in s..(e - 1) : OpAt(l).name \in names}

\* C7: an if/else compiles, after its marker, to the condition, one
\* br_if_not, the then-body, one br and the else-body; the br_if_not targets
\* the first opcode of the else-body and the br the label right after the
\* else-body.  The code of `if a < b: x = 1 else: x = 2` holds exactly one
\* i32_lt, two branches and two store_local x.
C7_IfElseLayout ==
    w_code.done =>
        \A sp \in StmtSpans("If") :
            Len(sp.node.else_body) > 0 =>
                /\ OpAt(sp.start).name = "mark_if_then_else"
                /\ \E IF_ \in (sp.start + 2)..sp.end, ELSE_ \in (sp.start + 2)..sp.end :
                      /\ HasSpan("expr", sp.node.test, sp.start + 1, IF_)
                      /\ OpAt(IF_) = [name |-> "br_if_not", args |-> <<IntArg(ELSE_)>>]
                      /\ Chained(sp.node.then_body, IF_ + 1, ELSE_ - 1)
                      /\ OpAt(ELSE_ - 1) = [name |-> "br", args |-> <<IntArg(sp.end)>>]
                      /\ ELSE_ < sp.end
                      /\ Chained(sp.node.else_body, ELSE_, sp.end)
                /\ sp.node = If(a_lt_b, <<x_is_1>>, <<x_is_2>>) =>
                      /\ Cardinality(Named(sp.start, sp.end, {"i32_lt"})) = 1
                      /\ Cardinality(Named(sp.start, sp.end, {"br", "br_if_not"})) = 2
                      /\ Cardinality({l \in Named(sp.start, sp.end, {"store_local"}) :
                                        OpAt(l).args = <<StrArg("x")>>}) = 2

\* the example of the specification compiled at an offset
C7_Witness ==
    /\ w_code.done /\ w_code.err = NoErr
    /\ \E sp \in StmtSpans("If") :
          sp.node = If(a_lt_b, <<x_is_1>>, <<x_is_2>>) /\ sp.start > 0

\* the effect of an opcode on the depth of the operand stack
Effect(op) ==
    CASE op.name \in {"load_const", "load_local", "load_global"} -> 1
      [] op.name \in {"i32_add", "i32_sub", "i32_mul", "i32_eq", "i32_neq", "i32_lt",
                      "i32_lte", "i32_gt", "i32_gte", "store_local", "store_global",
                      "pop_and_discard", "br_if_not", "return"} -> -1
      [] op.name = "call_global" -> 1 - op.args[2].i
      [] OTHER -> 0

\* where a return leaves the function: past every label of the body
Returned == Len(w_code.body) + 1

\* the <<label, depth>> pairs that follow <<pc, d>> inside the labels s..e-1
StackStep(s, e, st) ==
    LET pc == st[1]
        d == st[2] + Effect(OpAt(pc))
    IN  IF pc \notin s..(e - 1) \/ st[2] \notin (-MaxStack)..MaxStack THEN {}
        ELSE CASE OpAt(pc).name = "return" -> {<<Returned, d>>}
               [] OpAt(pc).name = "br" -> {<<OpAt(pc).args[1].i, d>>}
               [] OpAt(pc).name = "br_if_not" -> {<<OpAt(pc).args[1].i, d>>, <<pc + 1, d>>}
               [] OTHER -> {<<pc + 1, d>>}

RECURSIVE StackReach(_, _, _)
\* every <<label, depth>> on a control-flow path through s..e-1 from S
StackReach(S, s, e) ==
    LET N == S \cup UNION {StackStep(s, e, st) : st \in S}
    IN  IF N = S THEN S ELSE StackReach(N, s, e)

\* the ends of the paths that enter s..e-1 at s with depth 0: where they
\* leave the labels s..e-1 and the net effect on the depth
PathEnds(s, e) == {st \in StackReach({<<s, 0>>}, s, e) : st[1] \notin s..(e - 1)}

\* C8: the opcodes emitted by eval_expr have a net effect of +1 on the
\* operand stack, and those emitted by exec_stmt a net effect of 0 along
\* every control-flow path through them.
C8_StackDiscipline ==
    w_code.done =>
        \A k \in 1..Len(w_code.spans) :
            LET sp == w_code.spans[k]
            IN  IF sp.kind = "expr"
                THEN PathEnds(sp.start, sp.end) = {<<sp.end, 1>>}
                ELSE /\ PathEnds(sp.start, sp.end) # {}
                     /\ PathEnds(sp.start, sp.end) \subseteq {<<sp.end, 0>>, <<Returned, 0>>}

\* a loop with a return in its body: one path leaves the loop at its end,
\* the other leaves the function
C8_Witness ==
    /\ w_code.done /\ w_code.err = NoErr
    /\ \E sp \in StmtSpans("While") :
          /\ sp.node.body[1].node = "Return"
          /\ PathEnds(sp.start, sp.end) = {<<sp.end, 0>>, <<Returned, 0>>}

(***************************************************************************)
(* Claims about operator resolution.                                       *)
(***************************************************************************)
\* C9: whenever an exact pair is registered for the operator and the types
\* of the operands, it is the implementation selected, even if an operand
\* type declares an override for the operator.
C9_ExactPairFirst ==
    (binret.op # "none" /\ exact_pair(binret.op, binret.l, binret.r) # NULL) =>
        /\ binret.res.err = NoErr
        /\ binret.res.impl = exact_pair(binret.op, binret.l, binret.r)

\* C10: when no exact pair matches and the type of either operand declares
\* an override for the operator, the resolution delegates to an override of
\* one of the two types and type-checks the W_OpImpl it returns; for every
\* operator and whichever side declares the override.
C10_OverrideEitherSide ==
    (/\ binret.op # "none"
     /\ exact_pair(binret.op, binret.l, binret.r) = NULL
     /\ \/ has_meth_overriden(binret.l, meth_of(binret.op))
        \/ has_meth_overriden(binret.r, meth_of(binret.op))) =>
        /\ binret.res.impl \in {call_override(t, meth_of(binret.op)) : t \in {binret.l, binret.r}}
        /\ binret.res.impl # OpImpl("", meth_of(binret.op))
        /\ binret.res.checked

\* C11: == resolves to the identity comparison, and != to its negation, only
\* when the nearest common ancestor of the operand types is not the root
\* object type and is a reference type; and two operands of the same
\* reference type (one whose common ancestor is, as required, not the root)
\* whose class has no override always resolve == to the identity comparison
\* and != to its negation.
C11_IdentityOnlyForReferenceTypes ==
    binret.op # "none" =>
        LET w_common == union_type(binret.l, binret.r)
            same_ref == /\ binret.l = binret.r
                        /\ is_reference_type(binret.l)
                        /\ binret.l # w_object
                        /\ ~has_meth_overriden(binret.l, meth_of(binret.op))
        IN  /\ binret.res.impl = OpImpl("object", "is") =>
                   binret.op = "==" /\ w_common # w_object /\ is_reference_type(w_common)
            /\ binret.res.impl = OpImpl("object", "isnot") =>
                   binret.op = "!=" /\ w_common # w_object /\ is_reference_type(w_common)
            /\ (binret.op = "==" /\ same_ref) =>
                   binret.res = Resolved(OpImpl("object", "is"), TRUE)
            /\ (binret.op = "!=" /\ same_ref) =>
                   binret.res = Resolved(OpImpl("object", "isnot"), TRUE)

\* C11 witness: == on two operands of class A, which has no override, has
\* resolved to the identity comparison.
C11_Witness ==
    /\ binret.op = "==" /\ binret.l = "A" /\ binret.r = "A"
    /\ ~has_meth_overriden("A", "op_EQ")
    /\ binret.res.impl = OpImpl("object", "is")

\* C12: every operator of + - * / == != < <= > >= on (f64, i32) and on
\* (i32, f64) resolves to the f64 implementation that (f64, f64) resolves
\* to, (i32, i32) resolves to the i32 implementation, and no other pair of
\* differing operand types resolves to an i32 or f64 implementation.
C12_NumericPromotion ==
    binret.op # "none" =>
        /\ {binret.l, binret.r} \subseteq {"i32", "f64"} =>
               /\ binret.res.err = NoErr
               /\ binret.res.impl =
                      OpImpl(IF binret.l = "i32" /\ binret.r = "i32" THEN "i32" ELSE "f64",
                             fn_of(binret.op))
               /\ binret.res.impl # NULL
        /\ (binret.l # binret.r /\ {binret.l, binret.r} # {"i32", "f64"}) =>
               binret.res.impl.ty \notin {"i32", "f64"}

\* C12 witness: < on an i32 and an f64 operand has resolved to w_f64_lt.
C12_Witness ==
    /\ binret.op = "<" /\ binret.l = "i32" /\ binret.r = "f64"
    /\ binret.res.impl = OpImpl("f64", "lt")

(***************************************************************************)
(* Claims about conversion resolution.                                     *)
(***************************************************************************)
\* a is a base class of t other than t itself
ProperAncestor(a, t) == a # t /\ \E i \in 1..Len(mro(t)) : mro(t)[i] = a

\* C13 as stated: when the expected type is an ancestor of the type got, or
\* the type got is dynamic, the conversion resolves to the wrapper
\* from_dynamic[expected] and neither the table nor an extension is consulted.
C13_AncestorOfGotUsesWrapper ==
    (/\ convret.call # "none"
     /\ ProperAncestor(convret.exp, convret.got) \/ convret.got = "dynamic") =>
        /\ convret.res.err = NoErr
        /\ convret.res.func = w_from_dynamic(convret.exp)
        /\ convret.res.consulted = {}

\* C13 amended: when the type got is not already assignable to the expected
\* type, and the type got is an ancestor of the expected type or is dynamic,
\* the conversion resolves to the wrapper from_dynamic[expected] and neither
\* the table nor an extension is consulted.
C13_AncestorOfExpectedUsesWrapper ==
    (/\ convret.call # "none"
     /\ ~issubclass(convret.got, convret.exp)
     /\ ProperAncestor(convret.got, convret.exp) \/ convret.got = "dynamic") =>
        /\ convret.res.err = NoErr
        /\ convret.res.func = w_from_dynamic(convret.exp)
        /\ convret.res.consulted = {}

\* C13 witness: a value of class A converted to its subclass B, and a dynamic
\* value converted to i32, resolve to the wrapper of the destination type.
C13_Witness ==
    /\ convret.call # "none"
    /\ <<convret.got, convret.exp>> \in {<<"A", "B">>, <<"dynamic", "i32">>}
    /\ convret.res.func = w_from_dynamic(convret.exp)

\* C14: when the typecheck branch does not apply, the entry of the table for
\* (got, expected) is selected if there is one; otherwise what the extension
\* op_CONVERT_TO of the source type yields, otherwise what the extension
\* op_CONVERT_FROM of the destination type yields; the conversion fails,
\* with the type error "expected <expected>, got <got>", only if none of the
\* three yields an implementation, and no absent implementation is returned.
C14_ConversionPriority ==
    (/\ convret.call # "none"
     /\ ~issubclass(convret.got, convret.exp)
     /\ ~issubclass(convret.exp, convret.got)) =>
        LET exact == convert_lookup(convret.got, convret.exp)
            to    == IF has_meth_overriden(convret.got, "op_CONVERT_TO") /\ convret.to_yields
                     THEN call_override(convret.got, "op_CONVERT_TO") ELSE NULL
            from  == IF has_meth_overriden(convret.exp, "op_CONVERT_FROM")
                        /\ convret.from_yields
                     THEN call_override(convret.exp, "op_CONVERT_FROM") ELSE NULL
            chosen == IF exact # NULL THEN exact ELSE IF to # NULL THEN to ELSE from
        IN  IF chosen # NULL
            THEN convret.res.err = NoErr /\ convret.res.func = chosen
            ELSE /\ convret.res.err = "SPyTypeError"
                 /\ convret.res.msg = <<"expected", convret.exp, "got", convret.got>>
                 /\ convret.res.func = NULL

(***************************************************************************)
(* Claims about type lowering.                                             *)
(***************************************************************************)
\* the call of w2c a step has just made
LastCall(calls) == calls[Len(calls)]

\* C15: once w2c(T) has returned, a later call w2c(T) returns the same C
\* type and appends nothing to out_types_decl, out_ptrs_def or
\* out_types_def, for a descriptor T of any kind.
C15_LoweringIdempotent ==
    [][\A k \in 1..Len(w2c_calls) :
          (/\ Len(w2c_calls') = Len(w2c_calls) + 1
           /\ w2c_calls[k].err = NoErr
           /\ LastCall(w2c_calls').w_type = w2c_calls[k].w_type) =>
              /\ LastCall(w2c_calls').err = NoErr
              /\ LastCall(w2c_calls').ret = w2c_calls[k].ret
              /\ ctx'.out_types_decl = ctx.out_types_decl
              /\ ctx'.out_ptrs_def = ctx.out_ptrs_def
              /\ ctx'.out_types_def = ctx.out_types_def]_vars

\* C15 witness: w2c has returned twice for the same descriptor, a pointer to
\* a struct.
C15_Witness ==
    /\ Len(w2c_calls) = 2
    /\ w2c_calls[1].err = NoErr /\ w2c_calls[2].err = NoErr
    /\ w2c_calls[1].w_type = w2c_calls[2].w_type
    /\ w2c_calls[1].w_type \in TypeIds
    /\ w_types[w2c_calls[1].w_type].kind = "ptr"
    /\ w_types[w2c_calls[1].w_type].refs[1] \in TypeIds
    /\ w_types[w_types[w2c_calls[1].w_type].refs[1]].kind = "struct"

\* C16: in out_types_def the lines of a struct, from "struct X {" to "};",
\* are contiguous: every line between them is a field of X, and every line
\* that does not open a struct continues the struct of the line before it.
C16_StructBodiesContiguous ==
    LET defs == ctx.out_types_def
    IN  \A i \in 1..Len(defs) :
           /\ defs[i].text = "struct {" =>
                 \E j \in (i + 1)..Len(defs) :
                    /\ defs[j].text = "};"
                    /\ \A k \in (i + 1)..(j - 1) :
                          defs[k].text = "field" /\ defs[k].c_type = defs[i].c_type
                    /\ defs[j].c_type = defs[i].c_type
           /\ defs[i].text # "struct {" =>
                 i > 1 /\ defs[i - 1].c_type = defs[i].c_type /\ defs[i - 1].text # ""

\* C16 witness: one call of w2c on a struct has defined that struct and the
\* struct of one of its fields.
C16_Witness ==
    /\ Len(w2c_calls) = 1 /\ w2c_calls[1].err = NoErr
    /\ w2c_calls[1].w_type \in TypeIds
    /\ w_types[w2c_calls[1].w_type].kind = "struct"
    /\ \E i \in 1..Len(w_types[w2c_calls[1].w_type].refs) :
          LET f == w_types[w2c_calls[1].w_type].refs[i]
          IN  /\ f \in TypeIds /\ f # w2c_calls[1].w_type
              /\ w_types[f].kind = "struct"
              /\ Len(w_types[f].refs) > 0
    /\ Cardinality({i \in 1..Len(ctx.out_types_def) :
                       ctx.out_types_def[i].text = "struct {"}) >= 2

\* C17: the lowering of a type terminates on every finite type graph, cyclic
\* ones included: no call of w2c ends by running into the recursion limit.
C17_LoweringTerminates ==
    \A k \in 1..Len(w2c_calls) : w2c_calls[k].err # "RecursionError"

\* a struct is registered in _d, or declared in out_types_decl
Declared(w_st) ==
    \/ w_st \in DOMAIN ctx.d
    \/ \E i \in 1..Len(ctx.out_types_decl) :
          ctx.out_types_decl[i].c_type = C_Type(fqn_c_name(w_st))

\* the definition of a struct is in out_types_def
Defined(w_st) ==
    \E i \in 1..Len(ctx.out_types_def) :
       /\ ctx.out_types_def[i].text = "struct {"
       /\ ctx.out_types_def[i].c_type = C_Type(fqn_c_name(w_st))

\* C18: when the lowering of a struct has failed on a field of a kind that
\* is not supported, nothing of the struct remains: no line of its body in
\* out_types_def, no declaration in out_types_decl and no entry in _d, so
\* that w2c never returns the C type of a struct that was never defined.
C18_NoPartialLowering ==
    /\ \A t \in TypeIds :
          (/\ w_types[t].kind = "struct"
           /\ \E i \in 1..Len(w_types[t].refs) : w_types[t].refs[i] = "func") =>
              /\ ~Declared(t)
              /\ \A i \in 1..Len(ctx.out_types_def) :
                    ctx.out_types_def[i].c_type # C_Type(fqn_c_name(t))
    /\ \A k \in 1..Len(w2c_calls), t \in TypeIds :
          (/\ w_types[t].kind = "struct"
           /\ w2c_calls[k].err = NoErr
           /\ w2c_calls[k].ret = C_Type(fqn_c_name(t))) => Defined(t)

(***************************************************************************)
(* Claims about the layout of structs.                                     *)
(***************************************************************************)
\* n is a power of two
IsPowerOfTwo(n) == \E k \in 0..n : 2^k = n

\* offset rounded up to the next multiple of size
RoundUp(offset, size) == ((offset + size - 1) \div size) * size

RECURSIVE ReferenceLayout(_, _, _, _)
\* the reference computation: walk the fields in declared order, round the
\* running offset up to the next multiple of the field's size, place the
\* field there and advance by its size
ReferenceLayout(fields, i, offset, offsets) ==
    IF i > Len(fields) THEN [offsets |-> offsets, size |-> offset]
    ELSE ReferenceLayout(fields, i + 1, RoundUp(offset, fields[i]) + fields[i],
                         Append(offsets, RoundUp(offset, fields[i])))

\* C19: for every list of fields whose sizes are powers of two, calc_layout
\* gives each field, in declared order, the running offset rounded up to the
\* next multiple of the field's size, advances by the size, and gives the
\* final running offset as the total size; the fields (i32, bool of size 1,
\* f64) get the offsets 0, 4, 8 and the total size 16.
C19_FieldLayout ==
    layout.done =>
        /\ (\A i \in 1..Len(st_fields) : IsPowerOfTwo(st_fields[i])) =>
              /\ layout.offsets = ReferenceLayout(st_fields, 1, 0, <<>>).offsets
              /\ layout.size = ReferenceLayout(st_fields, 1, 0, <<>>).size
        /\ st_fields = <<4, 1, 8>> => layout.offsets = <<0, 4, 8>> /\ layout.size = 16

\* C19 witness: the layout of the fields (i32, bool, f64) has been computed.
C19_Witness == layout.done /\ st_fields = <<4, 1, 8>> /\ layout.size = 16

(***************************************************************************)
(* Claims about the errors of the QN parser.                               *)
(***************************************************************************)
\* malformed texts: empty input, a trailing '::', a trailing '#', an unclosed
\* bracket, a closing bracket after a complete QN, a QN after a complete QN's
\* closing bracket
Malformed ==
    {<<>>, <<"x", ":", ":">>, <<"x", "#">>, <<"x", "[", "x">>, <<"x", "]">>,
     <<"x", "]", "x">>}

\* the structured parse errors of the parser
ParseErrors ==
    {"ValueError: Unexpected token", "ValueError: Unclosed bracket", "ValueError: Expected"}

\* C20: the parser rejects every malformed input (empty input, a trailing
\* '::', a trailing '#', an unclosed bracket, trailing input after a complete
\* QN) with its structured parse error and returns no QN; it never fails an
\* internal assertion.
C20_MalformedRejected ==
    (qnret.op = "parse_text" /\ qnret.arg \in Malformed) =>
        /\ qnret.res.err \in ParseErrors
        /\ qnret.res.val = None

RECURSIVE SumOf(_)
\* the sum of a list of sizes
SumOf(sizes) == IF sizes = <<>> THEN 0 ELSE sizes[1] + SumOf(Tail(sizes))

\* C30: for every list of positive field sizes, power of two or not, each
\* field's offset is at least the end (offset + size) of the preceding
\* field, and the total size is at least the sum of the field sizes.
C30_FieldsNeverOverlap ==
    layout.done =>
        /\ \A i \in 2..Len(st_fields) :
              layout.offsets[i] >= layout.offsets[i - 1] + st_fields[i - 1]
        /\ layout.size >= SumOf(st_fields)

\* C30 witness: a layout has been computed for fields one of which has a
\* size that is not a power of two and comes after an unaligned offset.
C30_Witness ==
    /\ layout.done
    /\ st_fields = <<1, 3, 4>>
    /\ layout.offsets = <<0, 1, 4>>
    /\ layout.size = 8

(***************************************************************************)
(* Claims about the grammar accepted by the QN parser.                     *)
(***************************************************************************)
\* the characters of a name among those of the texts: a letter, '_' and '.'
NameChars == {"x", "_", "."}

\* s is made of name characters only
IsName(s) == \A k \in 1..Len(s) : s[k] \in NameChars

RECURSIVE NamesOfGrammar(_)
\* every segment of the QN q, at every nesting level of qualifiers, has a
\* name, and a suffix if any, made of name characters only
NamesOfGrammar(q) ==
    \A i \in 1..Len(q) :
        /\ IsName(q[i].name)
        /\ IsName(q[i].suffix)
        /\ \A j \in 1..Len(q[i].qualifiers) : NamesOfGrammar(q[i].qualifiers[j])

\* C21: in every QN returned by parse, each segment name and suffix, at
\* every nesting level of qualifiers, consists only of letters, digits, '_'
\* and '.': a structural token or a name containing ':' is never accepted.
C21_OnlyGrammarNames ==
    (qnret.op = "parse_text" /\ qnret.res.err = NoErr) => NamesOfGrammar(qnret.res.val)

(***************************************************************************)
(* Claims about the epilogue, names, calls and operators of CodeGen.       *)
(***************************************************************************)
\* the last statement of the function being compiled
LastStmt == funcdef.body[Len(funcdef.body)]

\* the label after the last statement of the body, if it was compiled
BodyEnds ==
    {w_code.spans[k].end : k \in {j \in 1..Len(w_code.spans) :
        /\ w_code.spans[j].kind = "stmt"
        /\ w_code.spans[j].node = LastStmt
        /\ \A i \in (j + 1)..Len(w_code.spans) : w_code.spans[i].kind # "stmt"}}

\* C22: after the last statement of every compiled body, a function of
\* return type void gets load_const None and return, every other function
\* gets exactly one abort, whether or not the body ends in a return
\* statement; once the statements are compiled the compilation does not
\* fail.
C22_Epilogue ==
    w_code.done =>
        \A e \in BodyEnds :
            /\ w_code.err = NoErr
            /\ IF funcdef.w_restype = "void"
               THEN /\ Len(w_code.body) = e + 2
                    /\ w_code.body[e + 1] = [name |-> "load_const", args |-> <<w_None>>]
                    /\ w_code.body[e + 2] = [name |-> "return", args |-> <<>>]
               ELSE /\ Len(w_code.body) = e + 1
                    /\ w_code.body[e + 1].name = "abort"

\* C22 witness: a function that is not void and whose body ends in a return
\* statement has been compiled, and its code ends in return, abort.
C22_Witness ==
    /\ w_code.done /\ w_code.err = NoErr
    /\ funcdef.w_restype = "i32"
    /\ LastStmt = Return(Name("a"))
    /\ Len(w_code.body) >= 2
    /\ w_code.body[Len(w_code.body) - 1].name = "return"
    /\ w_code.body[Len(w_code.body)].name = "abort"

\* C29: in every code object returned by make_w_code the last instruction
\* is return or abort, and the target of every branch is less than the
\* length of the body.
C29_NoRunPastEnd ==
    (w_code.done /\ w_code.err = NoErr) =>
        /\ Len(w_code.body) > 0
        /\ w_code.body[Len(w_code.body)].name \in {"return", "abort"}
        /\ \A l \in Labels :
              is_br(OpAt(l)) =>
                  /\ Len(OpAt(l).args) = 1
                  /\ OpAt(l).args[1].k = "int"
                  /\ OpAt(l).args[1].i >= 0
                  /\ OpAt(l).args[1].i < Len(w_code.body)

\* C29 witness: a function whose last statement is a loop has been compiled:
\* the exit of the loop is the label of the epilogue.
C29_Witness ==
    /\ w_code.done /\ w_code.err = NoErr
    /\ LastStmt.node = "While"
    /\ funcdef.w_restype = "i32"
    /\ \E l \in Labels :
          /\ OpAt(l).name = "br_if_not"
          /\ OpAt(l).args = <<IntArg(Len(w_code.body) - 1)>>

\* the function being compiled ends in a statement that evaluates e
Compiles(e) == LastStmt \in {Return(e), StmtExpr(e), Assign("x", e)}

\* the structured compile errors raised by CodeGen
CompileErrors == {"SPyCompileError: indirect calls not supported"}

\* the names the symbol table resolves to the scope s
NamesOfScope(s) == {id \in {"a", "b", "x", "s", "g", "f", "n"} : lookup(id).scope = s}

\* C23: a name of the function's own scope lowers to load_local or
\* store_local, a name of the module-global scope to load_global or
\* store_global, and a reference to or an assignment of any other name
\* fails with a structured compile error.
C23_NameResolution ==
    w_code.done =>
        /\ \A l \in Labels :
              /\ OpAt(l).name \in {"load_local", "store_local"} =>
                    OpAt(l).args[1].s \in NamesOfScope("local")
              /\ OpAt(l).name \in {"load_global", "store_global"} =>
                    OpAt(l).args[1].s \in NamesOfScope("global")
        /\ \A id \in NamesOfScope("nonlocal") :
              (Compiles(Name(id)) \/ LastStmt = Assign(id, Constant(1))) =>
                  w_code.err \in CompileErrors

RECURSIVE ChainedExprs(_, _, _)
\* the expressions are compiled one after the other from label s to label e
ChainedExprs(exprs, s, e) ==
    IF Len(exprs) = 0 THEN s = e
    ELSE \E m \in s..e : HasSpan("expr", exprs[1], s, m) /\ ChainedExprs(Tail(exprs), m, e)

\* the calls among the expressions handed to the compiler
Calls == {e \in Exprs : e.node = "Call"}

\* C24: a call whose callee is a compile-time-constant name compiles to its
\* arguments, left to right, and then exactly one call_global (name,
\* argument count); a call of any other callee fails with the compile error
\* 'indirect calls not supported'.
C24_CallLowering ==
    w_code.done =>
        \A call \in Calls :
            Compiles(call) =>
                IF call.func.node = "Name" /\ lookup(call.func.id).qualifier = "const"
                THEN /\ w_code.err = NoErr
                     /\ \E s \in Labels, e \in Labels :
                           /\ HasSpan("expr", call, s, e + 1)
                           /\ ChainedExprs(call.args, s, e)
                           /\ OpAt(e) = [name |-> "call_global",
                                         args |-> <<StrArg(call.func.id),
                                                    IntArg(Len(call.args))>>]
                     /\ Cardinality({l \in Labels : OpAt(l).name = "call_global"}) = 1
                ELSE w_code.err = "SPyCompileError: indirect calls not supported"

\* the (operator, left type, right type) combinations that lower directly
Supported(e) ==
    LET l == get_expr_type(e.left)
        r == get_expr_type(e.right)
    IN  \/ e.node = "BinOp" /\ e.op \in {"+", "*"} /\ l = "i32" /\ r = "i32"
        \/ e.node = "BinOp" /\ e.op = "+" /\ l = "str" /\ r = "str"
        \/ e.node = "CompareOp" /\ l = "i32" /\ r = "i32"
              /\ e.op \in {"==", "!=", "<", "<=", ">", ">="}

\* the operator expressions among the expressions handed to the compiler
Operators == {e \in Exprs : e.node \in {"BinOp", "CompareOp"}}

\* C25: an operator expression whose (operator, left type, right type) is
\* not one of the supported combinations fails with a structured compile
\* error.
C25_UnsupportedOperators ==
    w_code.done =>
        \A e \in Operators :
            (Compiles(e) /\ ~Supported(e)) => w_code.err \in CompileErrors

\* C26: a + b with both operands of type str compiles to the left operand,
\* the right operand and one call of the runtime primitive str_add, and
\* every instruction emitted has a name of the instruction vocabulary.
C26_StrAddCompiles ==
    w_code.done =>
        /\ \A l \in Labels : OpAt(l).name \in ALL_OPCODES
        /\ \A e \in Operators :
              (/\ Compiles(e)
               /\ e.node = "BinOp" /\ e.op = "+"
               /\ get_expr_type(e.left) = "str" /\ get_expr_type(e.right) = "str") =>
                  /\ w_code.err = NoErr
                  /\ \E s \in Labels, m \in Labels, n \in Labels :
                        /\ HasSpan("expr", e.left, s, m)
                        /\ HasSpan("expr", e.right, m, n)
                        /\ HasSpan("expr", e, s, n + 1)
                        /\ OpAt(n).args = <<StrArg("str_add")>>

(***************************************************************************)
(* Claims about the mangled identifier of a QN.                            *)
(***************************************************************************)
RECURSIVE JoinedBy(_, _), MangledSegment(_), MangledPlain(_)
\* the strings, each one but the first preceded by sep
JoinedBy(sep, strs) ==
    IF Len(strs) = 0 THEN <<>>
    ELSE IF Len(strs) = 1 THEN strs[1]
    ELSE JoinedBy(sep, SubSeq(strs, 1, Len(strs) - 1)) \o sep \o strs[Len(strs)]

\* the reference mangling of a segment: its name with '.' replaced by '_',
\* then '__' and the qualifiers' mangled forms joined by '_' if it has
\* qualifiers, then '$' and the suffix if it has one
MangledSegment(seg) ==
    [k \in 1..Len(seg.name) |-> IF seg.name[k] = "." THEN "_" ELSE seg.name[k]]
    \o (IF seg.qualifiers = <<>> THEN <<>>
        ELSE <<"_", "_">>
             \o JoinedBy(<<"_">>, [j \in 1..Len(seg.qualifiers) |->
                                      MangledPlain(seg.qualifiers[j])]))
    \o (IF seg.suffix = <<>> THEN <<>> ELSE <<"$">> \o seg.suffix)

\* the reference mangling of a QN without the prefix: its segments joined
\* by '$'
MangledPlain(q) == JoinedBy(<<"$">>, [i \in 1..Len(q) |-> MangledSegment(q[i])])

\* the QN mod::dict[i32, f64]::foo#0
ExampleQN ==
    <<NSPart_init(s_mod, <<>>, <<>>),
      NSPart_init(s_dict, <<<<NSPart_init(s_i32, <<>>, <<>>)>>,
                            <<NSPart_init(s_f64, <<>>, <<>>)>>>>, <<>>),
      NSPart_init(s_foo, <<>>, <<"0">>)>>

\* the text spy_mod$dict__i32_f64$foo$0
ExampleMangled ==
    <<"s", "p", "y", "_", "m", "o", "d", "$", "d", "i", "c", "t", "_", "_",
      "i", "3", "2", "_", "f", "6", "4", "$", "f", "o", "o", "$", "0">>

\* C27: the mangled identifier of a QN is 'spy_' followed by the reference
\* mangling of its segments joined by '$'; mod::dict[i32, f64]::foo#0
\* mangles to spy_mod$dict__i32_f64$foo$0.
C27_Mangling ==
    qnret.op = "c_name" =>
        /\ qnret.res = <<"s", "p", "y", "_">> \o MangledPlain(qnret.arg)
        /\ qnret.arg = ExampleQN => qnret.res = ExampleMangled

\* C27 witness: the QN mod::dict[i32, f64]::foo#0 has been mangled.
C27_Witness ==
    qnret.op = "c_name" /\ qnret.arg = ExampleQN /\ qnret.res = ExampleMangled

(***************************************************************************)
(* Claims about how often a type is declared.                              *)
(***************************************************************************)
\* how many pieces of text with the given opening were written to the
\* stream for the C type of the descriptor w_type
Written(stream, w_type, texts) ==
    Cardinality({k \in 1..Len(stream) :
        /\ stream[k].c_type = C_Type(fqn_c_name(w_type))
        /\ stream[k].text \in texts})

\* C28: over any sequence of w2c calls on any type graph, the wrapper
\* typedef and the helper-macro block of each pointer or lifted type, and
\* the forward declaration and the definition of each struct, are written
\* to their stream at most once.
C28_DeclaredAtMostOnce ==
    \A w_type \in TypeIds :
        /\ Written(ctx.out_types_decl, w_type,
                   {"typedef struct { *p }", "typedef struct { ll }", "typedef struct"}) <= 1
        /\ Written(ctx.out_ptrs_def, w_type,
                   {"SPY_PTR_FUNCTIONS", "SPY_TYPELIFT_FUNCTIONS"}) <= 1
        /\ Written(ctx.out_types_def, w_type, {"struct {"}) <= 1

====
